---- MODULE Spec2Model ----
(***************************************************************************)
(* A model of the ray tracer of giorgi-o/rust-raytracer.                   *)
(*                                                                         *)
(* Geometry is modelled in integers with axis-aligned unit ray directions, *)
(* so that every distance, position and normal the code computes in f32 is *)
(* exact here.  Lengths are counted in steps of EPSILON (the code's 1e-4   *)
(* offset); the length 1.0 is UNIT steps, and objects and camera rays sit  *)
(* on the lattice of multiples of UNIT.                                    *)
(***************************************************************************)
EXTENDS Integers, Sequences, FiniteSets, TLC

VARIABLES
    csgIn,      \* Csg::intersect on operand hit streams: [mode, left, right]
    csgOut,     \* its result: [panic, hits]
    primIn,     \* Object::intersect on an object: [obj, ray]
    primOut,    \* its result: [panic, hits]
    sceneCall,  \* a call of Scene::raytrace or Scene::shadowtrace: [op, objects, lights, ray, limit]
    sceneRet,   \* what the call returned
    camera,     \* a call of Camera::render: [pc, width, height, num_threads]
    threads,    \* the render threads it spawned, thread_index + 1 |-> [start_y, end_y, y, state, framebuffer]
    finished,   \* the threads that returned, in the order they returned
    framebuffers, \* the driver's vector of joined framebuffers
    image,      \* the framebuffer render returned (an Option)
    stdout,     \* what was printed to standard output
    stdout_lock, \* the thread holding the lock of standard output, 0 when free
    shoot,      \* a call of PhotonLight::shoot_photons_mt: [pc, light, num_photons, num_threads, caustic_photons, photons]
    shooters,   \* the threads it spawned, thread_index + 1 |-> [num_photons, first_thread, i, photons, state]
    pscene,     \* a PhotonScene: [pc, lights, regular_photon_map, caustic_photon_map]
    builders,   \* the tree-building threads of build_photon_maps: [regular, caustic], each [state, photons, tree]
    tiles,      \* the raytrace calls of the tile workers, worker |-> where its call stands
    calls,      \* a recursive trace and its call stack: [op, pc, stack, photon, hit]
    build,      \* a call of SceneFile::from_path or from_contents: [pc, written, readable, parsed, result]
    main,       \* the run of the binary: [pc, files, ffmpeg, stderr, exit]
    weighed,    \* a material and its four behaviour weights: [material, weights]
    shaded      \* a call of a Phong evaluator: [op, normal, ldir, diffuse_strength, diffuse, colour]

csgVars == <<csgIn, csgOut>>

primVars == <<primIn, primOut>>

sceneVars == <<sceneCall, sceneRet>>

renderVars == <<camera, threads, finished, framebuffers, image>>

outVars == <<stdout, stdout_lock>>

shootVars == <<shoot, shooters>>

photonVars == <<pscene, builders, tiles>>

traceVars == <<calls>>

progVars == <<build, main, weighed, shaded>>

vars == <<csgVars, primVars, sceneVars, renderVars, outVars, shootVars, photonVars, traceVars,
         progVars>>

-----------------------------------------------------------------------------
(* Bounds of the model *)

\* largest distance of a hit in an operand stream handed to Csg::intersect
MaxDist == 4
\* largest number of enter/exit intervals in such an operand stream
MaxIntervals == 2
\* ray origins are the lattice points with coordinates in -MaxCoord..MaxCoord
\* (times UNIT)
MaxCoord == 2
\* the length 1.0 in steps of the model
UNIT == 2

\* most nested calls the stack of a thread holds
MaxStack == 7
\* most paragraphs in a scene file
MaxParagraphs == 3
\* most materials added to a CompoundMaterial
MaxMaterials == 2

(* Program constants *)

\* core/hit.rs: const HITVEC_SIZE: u8 = 6
HITVEC_SIZE == 6
\* stands for f32::INFINITY (larger than every finite distance of the model)
INFINITY == 1000
\* stands for f32::MAX, the largest finite distance
F32_MAX == 999
\* the offset 0.0001 of a secondary ray's origin, and the slack of Cuboid's
\* inside test: one step of the model
EPSILON == 1

NEG_INFINITY == 0 - INFINITY

\* materials/global_material.rs: compute_once returns black from this depth on
MAX_DEPTH == 5

-----------------------------------------------------------------------------
(* core/vector.rs, core/vertex.rs *)

Vec(x, y, z) == [x |-> x, y |-> y, z |-> z]

VZero == Vec(0, 0, 0)

VAdd(a, b) == Vec(a.x + b.x, a.y + b.y, a.z + b.z)

VSub(a, b) == Vec(a.x - b.x, a.y - b.y, a.z - b.z)

VScale(a, k) == Vec(a.x * k, a.y * k, a.z * k)

negated(a) == Vec(0 - a.x, 0 - a.y, 0 - a.z)

dot(a, b) == a.x * b.x + a.y * b.y + a.z * b.z

len_sqrd(a) == dot(a, a)

Abs(n) == IF n < 0 THEN 0 - n ELSE n

\* f32::sqrt on the values the model meets: the exact root of a perfect
\* square, the root rounded down otherwise.
Sqrt(n) == CHOOSE k \in 0..n : k * k <= n /\ (k + 1) * (k + 1) > n

length(a) == Sqrt(len_sqrd(a))

Sgn(n) == IF n < 0 THEN -1 ELSE IF n > 0 THEN 1 ELSE 0

\* exact quotient of two integers, b # 0 (f32 division on the values the model meets)
Div(a, b) == IF b < 0 THEN Sgn(0 - a) * (Abs(a) \div (0 - b)) ELSE Sgn(a) * (Abs(a) \div b)

\* Vector::normalised: every component divided by the length (exact for the
\* axis-aligned vectors of the model; the zero vector is left as it is)
normalised(a) ==
    LET l == length(a) IN
    IF l = 0 THEN a ELSE Vec(Div(a.x, l), Div(a.y, l), Div(a.z, l))

\* the six axis-aligned unit directions
AxisDirs ==
    { Vec(1, 0, 0), Vec(-1, 0, 0), Vec(0, 1, 0), Vec(0, -1, 0),
      Vec(0, 0, 1), Vec(0, 0, -1) }

Coords == { UNIT * k : k \in (0 - MaxCoord)..MaxCoord }

\* core/ray.rs: a ray is a position and a unit direction
Rays == [position : [x : Coords, y : Coords, z : Coords], direction : AxisDirs]

-----------------------------------------------------------------------------
(* core/hit.rs *)

\* Hit::new
Hit(what, entering, distance, position, normal) ==
    [distance |-> distance, entering |-> entering, what |-> what,
     position |-> position, normal |-> normal]

\* Hit::infinity: position and normal are zero
HitInfinity(what, entering, distance) ==
    Hit(what, entering, distance, VZero, VZero)

\* A HitVec under construction or returned: panic is set by a push onto a
\* full buffer ("HitVec overflow"), after which the call returns nothing.
HitVecNew == [panic |-> FALSE, hits |-> <<>>]

\* HitVec::push
Push(hv, hit) ==
    IF hv.panic THEN hv
    ELSE IF Len(hv.hits) >= HITVEC_SIZE THEN [panic |-> TRUE, hits |-> <<>>]
    ELSE [panic |-> FALSE, hits |-> Append(hv.hits, hit)]

RECURSIVE PushAll(_, _)
\* `for hit in iter { hit_vec.push(hit) }`
PushAll(hv, hits) ==
    IF hits = <<>> THEN hv ELSE PushAll(Push(hv, Head(hits)), Tail(hits))

\* hitvec![h1, h2]
HitVecOf(hits) == PushAll(HitVecNew, hits)

-----------------------------------------------------------------------------
(* objects/sphere_object.rs *)

Sphere(id, centre, radius) ==
    [kind |-> "Sphere", id |-> id, centre |-> centre, radius |-> radius]

\* the closure create_hit of Sphere::intersect (no normal map)
SphereCreateHit(self, ray, distance, entering) ==
    LET position == VAdd(ray.position, VScale(ray.direction, distance))
        n0 == normalised(VSub(position, self.centre))
        normal == IF dot(n0, ray.direction) > 0 THEN negated(n0) ELSE n0
    IN  Hit(self.id, entering, distance, position, normal)

\* Sphere::intersect
SphereIntersect(self, ray) ==
    LET ro == VSub(ray.position, self.centre)
        a == dot(ray.direction, ray.direction)
        b == 2 * dot(ray.direction, ro)
        c == dot(ro, ro) - self.radius * self.radius
        discriminant == b * b - 4 * a * c
    IN  IF discriminant < 0 THEN HitVecNew
        ELSE LET ds == Sqrt(discriminant)
                 t0 == Div(0 - b - ds, 2)
                 t1 == Div(0 - b + ds, 2)
             IN  HitVecOf(<< SphereCreateHit(self, ray, t0, TRUE),
                             SphereCreateHit(self, ray, t1, FALSE) >>)

-----------------------------------------------------------------------------
(* objects/quadratic_object.rs *)

\* variables = (a, b, c, d, e, f, g, h, i, j)
Quadratic(id, variables) ==
    [kind |-> "Quadratic", id |-> id, variables |-> variables]

\* the closure create_hit of Quadratic::intersect
QuadraticCreateHit(self, ray, t, entering) ==
    LET v == self.variables
        position == VAdd(ray.position, VScale(ray.direction, t))
        xi == position.x
        yi == position.y
        zi == position.z
        n0 == normalised(Vec(v[1] * xi + v[2] * yi + v[3] * zi + v[4],
                             v[2] * xi + v[5] * yi + v[6] * zi + v[7],
                             v[3] * xi + v[6] * yi + v[8] * zi + v[9]))
        normal == IF dot(n0, ray.direction) > 0 THEN negated(n0) ELSE n0
    IN  Hit(self.id, entering, t, position, normal)

\* Quadratic::intersect
QuadraticIntersect(self, ray) ==
    LET v == self.variables
        P == ray.position
        D == ray.direction
        Aq == v[1] * D.x * D.x + 2 * v[2] * D.x * D.y + 2 * v[3] * D.x * D.z
              + v[5] * D.y * D.y + 2 * v[6] * D.y * D.z + v[8] * D.z * D.z
        Bq == 2 * (v[1] * P.x * D.x + v[2] * (P.x * D.y + P.y * D.x)
                   + v[3] * (P.x * D.z + D.x * P.z) + v[4] * D.x
                   + v[5] * P.y * D.y + v[6] * (P.y * D.z + D.y * P.z)
                   + v[7] * D.y + v[8] * P.z * D.z + v[9] * D.z)
        Cq == v[1] * P.x * P.x + 2 * v[2] * P.x * P.y + 2 * v[3] * P.x * P.z
              + 2 * v[4] * P.x + v[5] * P.y * P.y + 2 * v[6] * P.y * P.z
              + 2 * v[7] * P.y + v[8] * P.z * P.z + 2 * v[9] * P.z + v[10]
        discriminant == Bq * Bq - 4 * Aq * Cq
    IN  IF Abs(Aq) = 0 THEN HitVecNew
        ELSE IF discriminant < 0 THEN HitVecNew
        ELSE LET sd == Sqrt(discriminant)
                 u0 == Div(0 - Bq - sd, 2 * Aq)
                 u1 == Div(0 - Bq + sd, 2 * Aq)
                 t0 == IF u0 > u1 THEN u1 ELSE u0
                 t1 == IF u0 > u1 THEN u0 ELSE u1
             IN  HitVecOf(<< QuadraticCreateHit(self, ray, t0, TRUE),
                             QuadraticCreateHit(self, ray, t1, FALSE) >>)

-----------------------------------------------------------------------------
(* objects/plane_object.rs *)

\* Plane::new_raw: d = -normal . point
Plane(id, point, normal) ==
    [kind |-> "Plane", id |-> id, centre |-> point, normal |-> normal,
     d |-> 0 - dot(normal, point)]

\* Plane::intersect (no normal map; texture coordinates are not modelled)
PlaneIntersect(self, ray) ==
    LET U == dot(self.normal, ray.position) + self.d
        V == dot(self.normal, ray.direction)
    IN  IF V = 0
        THEN IF U >= 0
             THEN HitVecOf(<< HitInfinity(self.id, TRUE, NEG_INFINITY),
                              HitInfinity(self.id, FALSE, INFINITY) >>)
             ELSE HitVecNew
        ELSE LET t == Div(U, 0 - V)
                 position == VAdd(ray.position, VScale(ray.direction, t))
             IN  IF V > 0
                 THEN HitVecOf(<< HitInfinity(self.id, TRUE, NEG_INFINITY),
                                  Hit(self.id, FALSE, t, position, negated(self.normal)) >>)
                 ELSE HitVecOf(<< Hit(self.id, TRUE, t, position, self.normal),
                                  HitInfinity(self.id, FALSE, INFINITY) >>)

-----------------------------------------------------------------------------
(* objects/cuboid_object.rs *)

Cuboid(id, corner, size) ==
    [kind |-> "Cuboid", id |-> id, corner |-> corner, size |-> size]

\* Cuboid::get_planes, in the order of CuboidPlanes::iter:
\* left, right, up, down, front, back
get_planes(self) ==
    LET corner == self.corner
        fdl == corner
        ful == VAdd(corner, Vec(0, self.size.y, 0))
        bdl == VAdd(corner, Vec(0, 0, self.size.z))
        bdr == VAdd(corner, Vec(self.size.x, 0, self.size.z))
    IN  << Plane(self.id, fdl, Vec(-1, 0, 0)),
           Plane(self.id, bdr, Vec(1, 0, 0)),
           Plane(self.id, ful, Vec(0, 1, 0)),
           Plane(self.id, fdl, Vec(0, -1, 0)),
           Plane(self.id, fdl, Vec(0, 0, -1)),
           Plane(self.id, bdl, Vec(0, 0, 1)) >>

\* the test `inside` of Cuboid::intersect
CuboidInside(self, p) ==
    /\ p.x >= self.corner.x - EPSILON /\ p.x <= self.corner.x + self.size.x + EPSILON
    /\ p.y >= self.corner.y - EPSILON /\ p.y <= self.corner.y + self.size.y + EPSILON
    /\ p.z >= self.corner.z - EPSILON /\ p.z <= self.corner.z + self.size.z + EPSILON

\* one pass of the inner loop of Cuboid::intersect over a plane's hit;
\* st = [first_hit, back_hit], each an Option as a sequence of length <= 1
CuboidVisit(self, st, hit) ==
    IF ~CuboidInside(self, hit.position) THEN st
    ELSE IF hit.distance < 0 THEN st
    ELSE IF hit.distance = INFINITY \/ hit.distance = NEG_INFINITY THEN st
    ELSE IF hit.entering
    THEN IF ~(st.first_hit # <<>> /\ st.first_hit[1].distance > hit.distance)
         THEN [st EXCEPT !.first_hit = <<hit>>]
         ELSE st
    ELSE IF ~(st.back_hit # <<>> /\ st.back_hit[1].distance < hit.distance)
         THEN [st EXCEPT !.back_hit = <<hit>>]
         ELSE st

RECURSIVE CuboidLoop(_, _, _, _)
\* `for plane in planes.iter() { for hit in plane.intersect(ray) { ... } }`
CuboidLoop(self, ray, planes, st) ==
    IF planes = <<>> THEN st
    ELSE LET hits == PlaneIntersect(Head(planes), ray).hits
             st1 == IF Len(hits) >= 1 THEN CuboidVisit(self, st, hits[1]) ELSE st
             st2 == IF Len(hits) >= 2 THEN CuboidVisit(self, st1, hits[2]) ELSE st1
         IN  CuboidLoop(self, ray, Tail(planes), st2)

\* Cuboid::intersect
CuboidIntersect(self, ray) ==
    LET st == CuboidLoop(self, ray, get_planes(self),
                         [first_hit |-> <<>>, back_hit |-> <<>>])
    IN  PushAll(PushAll(HitVecNew, st.first_hit), st.back_hit)

-----------------------------------------------------------------------------
(* objects/csg_object.rs *)

CsgModes == {"Union", "Intersection", "Difference"}

Csg(id, mode, left, right) ==
    [kind |-> "Csg", id |-> id, mode |-> mode, left |-> left, right |-> right]

\* the table `actions` of Csg::intersect, indexed by state + 1
CsgActions(mode) ==
    CASE mode = "Union" ->
           << "ADrop", "BDrop", "AExit", "BDrop", "ADrop", "BExit", "AEnter", "BEnter" >>
      [] mode = "Intersection" ->
           << "AExit", "BExit", "ADrop", "BEnter", "AEnter", "BDrop", "ADrop", "BDrop" >>
      [] mode = "Difference" ->
           << "ADrop", "BEnter", "AExit", "BExit", "ADrop", "BDrop", "AEnter", "BDrop" >>

\* the three-bit state of one pass of the loop
CsgState(left_hit, right_hit) ==
    (IF left_hit.entering THEN 4 ELSE 0)
    + (IF right_hit.entering THEN 2 ELSE 0)
    + (IF left_hit.distance > right_hit.distance THEN 1 ELSE 0)

RECURSIVE CsgLoop(_, _, _, _)
\* the loop of Csg::intersect, then the pass-through of the remainders
CsgLoop(mode, left_hits, right_hits, hit_vec) ==
    IF hit_vec.panic THEN hit_vec
    ELSE IF left_hits = <<>> \/ right_hits = <<>>
    THEN CASE mode = "Difference" -> PushAll(hit_vec, left_hits)
           [] mode = "Union" -> PushAll(PushAll(hit_vec, left_hits), right_hits)
           [] mode = "Intersection" -> hit_vec
    ELSE LET left_hit == Head(left_hits)
             right_hit == Head(right_hits)
             action == CsgActions(mode)[CsgState(left_hit, right_hit) + 1]
         IN  CASE action \in {"AEnter", "AExit"} ->
                    CsgLoop(mode, Tail(left_hits), right_hits,
                            Push(hit_vec, [left_hit EXCEPT !.entering = (action = "AEnter")]))
               [] action = "ADrop" ->
                    CsgLoop(mode, Tail(left_hits), right_hits, hit_vec)
               [] action \in {"BEnter", "BExit"} ->
                    CsgLoop(mode, left_hits, Tail(right_hits),
                            Push(hit_vec, [right_hit EXCEPT !.entering = (action = "BEnter")]))
               [] action = "BDrop" ->
                    CsgLoop(mode, left_hits, Tail(right_hits), hit_vec)

\* Csg::intersect on the hit streams its operands returned; a panic of an
\* operand's intersect propagates
CsgMerge(mode, left, right) ==
    IF left.panic \/ right.panic THEN [panic |-> TRUE, hits |-> <<>>]
    ELSE CsgLoop(mode, left.hits, right.hits, HitVecNew)

RECURSIVE Intersect(_, _)
\* Object::intersect, dispatched on the object's type
Intersect(obj, ray) ==
    CASE obj.kind = "Sphere" -> SphereIntersect(obj, ray)
      [] obj.kind = "Quadratic" -> QuadraticIntersect(obj, ray)
      [] obj.kind = "Plane" -> PlaneIntersect(obj, ray)
      [] obj.kind = "Cuboid" -> CuboidIntersect(obj, ray)
      [] obj.kind = "Csg" ->
           CsgMerge(obj.mode, Intersect(obj.left, ray), Intersect(obj.right, ray))

-----------------------------------------------------------------------------
(* The operand hit streams of Csg::intersect: sorted by distance, made of
   matched enter/exit pairs *)

NonDecreasing(n) ==
    { s \in [1..n -> 0..MaxDist] : \A i \in 1..(n - 1) : s[i] <= s[i + 1] }

\* the stream of operand `what` with the distances s: enter, exit, enter, ...
StreamOf(what, s) ==
    [i \in 1..Len(s) |-> HitInfinity(what, i % 2 = 1, s[i])]

Streams(what) ==
    UNION { { StreamOf(what, s) : s \in NonDecreasing(2 * k) } : k \in 0..MaxIntervals }

CsgIdle == [mode |-> "none", left |-> <<>>, right |-> <<>>]

NoHits == [panic |-> FALSE, hits |-> <<>>]

\* Csg::intersect, on the hit streams its two operands returned
CsgIntersect ==
    /\ csgIn = CsgIdle
    /\ \E mode \in CsgModes, left \in Streams("A"), right \in Streams("B") :
         /\ csgIn' = [mode |-> mode, left |-> left, right |-> right]
         /\ csgOut' = CsgMerge(mode, HitVecOf(left), HitVecOf(right))
    /\ UNCHANGED <<traceVars, progVars, primVars, sceneVars, renderVars, outVars, shootVars, photonVars>>

-----------------------------------------------------------------------------
(* The composite objects of scene_file.rs: MarioPipe and MarioCoin *)

\* largest distance of a hit a leaf of a composite returns
MaxLeafDist == 2

LeafDistances == 0..MaxLeafDist

\* what Sphere::intersect and Quadratic::intersect may return for a ray: no
\* hits, or the entering hit at t0 and the exiting hit at t1 >= t0
SolidHits(what) ==
    {<<>>} \cup { << HitInfinity(what, TRUE, t[1]), HitInfinity(what, FALSE, t[2]) >> :
                    t \in { t \in LeafDistances \X LeafDistances : t[1] <= t[2] } }

\* an Option<Hit> of a leaf, as a sequence of length <= 1
OptionHit(what, entering) ==
    {<<>>} \cup { <<HitInfinity(what, entering, t)>> : t \in LeafDistances }

\* a leaf that returns up to 3 hits: an entering hit and two exiting hits
CuboidHitsPerFace(what) ==
    { first_hit \o back_hit \o <<HitInfinity(what, FALSE, MaxLeafDist)>> :
        first_hit \in OptionHit(what, TRUE), back_hit \in OptionHit(what, FALSE) }

\* what Cuboid::intersect may return for a ray: first_hit, if any, then
\* back_hit, if any
CuboidHits(what) ==
    { first_hit \o back_hit :
        first_hit \in OptionHit(what, TRUE), back_hit \in OptionHit(what, FALSE) }

\* Csg::new(CsgMode::Intersection, solid, box) intersected with the ray
\* for which the leaves returned solid and box
Intersection(solid, box) == CsgMerge("Intersection", HitVecOf(solid), HitVecOf(box))

\* MarioPipe, the inner union: main_cylinder and top_cylinder, each a
\* cylinder cut by a box
PipeIntersect ==
    /\ csgIn = CsgIdle
    /\ \E main_cylinder \in SolidHits("main_cylinder"),
          main_cylinder_box \in CuboidHits("main_cylinder_box"),
          top_cylinder \in SolidHits("top_cylinder"),
          top_cylinder_box \in CuboidHits("top_cylinder_box") :
         /\ csgIn' = [node |-> "pipe", mode |-> "Union",
                      left |-> Intersection(main_cylinder, main_cylinder_box),
                      right |-> Intersection(top_cylinder, top_cylinder_box)]
         /\ csgOut' = CsgMerge("Union", Intersection(main_cylinder, main_cylinder_box),
                               Intersection(top_cylinder, top_cylinder_box))
    /\ UNCHANGED <<traceVars, progVars, primVars, sceneVars, renderVars, outVars, shootVars,
                   photonVars>>

\* MarioPipe, the outer union: the pipe with black_hole, a sphere cut by a
\* thin box
MarioPipeIntersect ==
    /\ csgIn # CsgIdle
    /\ csgIn.node = "pipe"
    /\ \E black_hole \in SolidHits("black_hole"),
          black_hole_box \in CuboidHits("black_hole_box") :
         /\ csgIn' = [node |-> "MarioPipe", mode |-> "Union", left |-> csgOut,
                      right |-> Intersection(black_hole, black_hole_box)]
         /\ csgOut' = CsgMerge("Union", csgOut, Intersection(black_hole, black_hole_box))
    /\ UNCHANGED <<traceVars, progVars, primVars, sceneVars, renderVars, outVars, shootVars,
                   photonVars>>

\* MarioCoin, the inner difference: the coin, a sphere cut by a box, less
\* shallow_part, a sphere cut by a box
CoinIntersect ==
    /\ csgIn = CsgIdle
    /\ \E coin \in SolidHits("coin"), coin_box \in CuboidHits("coin_box"),
          shallow_part \in SolidHits("shallow_part"),
          shallow_part_box \in CuboidHits("shallow_part_box") :
         /\ csgIn' = [node |-> "coin", mode |-> "Difference",
                      left |-> Intersection(coin, coin_box),
                      right |-> Intersection(shallow_part, shallow_part_box)]
         /\ csgOut' = CsgMerge("Difference", Intersection(coin, coin_box),
                               Intersection(shallow_part, shallow_part_box))
    /\ UNCHANGED <<traceVars, progVars, primVars, sceneVars, renderVars, outVars, shootVars,
                   photonVars>>

\* MarioCoin, the outer difference: the coin less the cuboid line
MarioCoinIntersect ==
    /\ csgIn # CsgIdle
    /\ csgIn.node = "coin"
    /\ \E line \in CuboidHits("line") :
         /\ csgIn' = [node |-> "MarioCoin", mode |-> "Difference", left |-> csgOut,
                      right |-> HitVecOf(line)]
         /\ csgOut' = CsgMerge("Difference", csgOut, HitVecOf(line))
    /\ UNCHANGED <<traceVars, progVars, primVars, sceneVars, renderVars, outVars, shootVars,
                   photonVars>>

-----------------------------------------------------------------------------
(* The primitives and rays of the model *)

\* a point of the lattice
At(i, j, k) == Vec(UNIT * i, UNIT * j, UNIT * k)

\* the sphere of radius 1.0 about the origin as a quadric: x^2 + y^2 + z^2 - 1 = 0
\* (all ten coefficients times UNIT^2, which changes no root and no normal)
UnitSphereQ == << 1, 0, 0, 0, 1, 0, 0, 1, 0, 0 - UNIT * UNIT >>

\* Quadratic::cylinder(2.0): a = h = 1 / radius^2, j = -1 (times UNIT^2)
CylinderQ == << 1, 0, 0, 0, 0, 0, 0, 1, 0, 0 - UNIT * UNIT >>

Spheres ==
    { Sphere("S0", At(0, 0, 0), UNIT), Sphere("S1", At(1, 0, 0), UNIT),
      Sphere("S2", At(0, 0, 2), UNIT) }

Quadratics == { Quadratic("Q0", UnitSphereQ), Quadratic("Q1", CylinderQ) }

Cuboids ==
    { Cuboid("C0", At(-1, -1, -1), At(2, 2, 2)),
      Cuboid("C1", At(0, 0, 0), At(1, 1, 2)) }

Primitives == Spheres \cup Quadratics \cup Cuboids

\* one-level CSG objects over the primitives, and two two-level unions of
\* spheres lined up on the x axis
Csgs ==
    { Csg("G", mode, a, b) : mode \in CsgModes, a \in Primitives, b \in Primitives }
    \cup
    { Csg("G", "Union",
          Csg("GL", "Union", Sphere("S3", At(-3, 0, 0), UNIT), Sphere("S4", At(-1, 0, 0), UNIT)),
          Csg("GR", mode, Sphere("S1", At(1, 0, 0), UNIT), Sphere("S5", At(3, 0, 0), UNIT)))
        : mode \in {"Union", "Intersection"} }

PrimIdle == [obj |-> [kind |-> "none"], ray |-> [position |-> VZero, direction |-> VZero]]

\* <Object>::intersect(ray) for an object of the given set
IntersectOf(objs) ==
    /\ primIn = PrimIdle
    /\ \E obj \in objs, ray \in Rays :
         /\ primIn' = [obj |-> obj, ray |-> ray]
         /\ primOut' = Intersect(obj, ray)
    /\ UNCHANGED <<csgVars, traceVars, progVars, sceneVars, renderVars, outVars, shootVars, photonVars>>

\* Sphere::intersect
IntersectSphere == IntersectOf(Spheres)

\* Quadratic::intersect
IntersectQuadratic == IntersectOf(Quadratics)

\* planes through lattice points with an axis as normal
Planes ==
    { Plane("P0", At(0, 0, 0), Vec(0, 1, 0)), Plane("P1", At(0, 1, 0), Vec(0, -1, 0)),
      Plane("P2", At(1, 0, 0), Vec(1, 0, 0)) }

\* Plane::intersect
IntersectPlane == IntersectOf(Planes)

\* Cuboid::intersect
IntersectCuboid == IntersectOf(Cuboids)

\* rays in the plane z = 0 along its diagonals, from every point of the
\* lattice of single steps; distances along them count in lengths of the
\* direction
ObliqueRays ==
    { [position |-> Vec(x, y, 0), direction |-> Vec(dx, dy, 0)] :
        x \in (0 - MaxCoord * UNIT - 1)..(MaxCoord * UNIT + 1),
        y \in (0 - MaxCoord * UNIT - 1)..(MaxCoord * UNIT + 1),
        dx \in {-1, 1}, dy \in {-1, 1} }

\* Cuboid::intersect for a ray that is not parallel to four of the faces
IntersectCuboidOblique ==
    /\ primIn = PrimIdle
    /\ \E obj \in Cuboids, ray \in ObliqueRays :
         /\ primIn' = [obj |-> obj, ray |-> ray]
         /\ primOut' = Intersect(obj, ray)
    /\ UNCHANGED <<csgVars, traceVars, progVars, sceneVars, renderVars, outVars, shootVars,
                   photonVars>>

\* Csg::intersect over primitives
IntersectCsg == IntersectOf(Csgs)

-----------------------------------------------------------------------------
(* lights/point_light.rs, lights/directional_light.rs *)

PointLight(position) == [kind |-> "PointLight", position |-> position]

DirectionalLight(direction) == [kind |-> "DirectionalLight", direction |-> direction]

\* Vertex::vector_to
vector_to(self, other) == VSub(other, self)

\* Light::get_direction: PointLight normalises, DirectionalLight returns its
\* direction as stored; both always return Some
get_direction(light, surface) ==
    IF light.kind = "PointLight"
    THEN normalised(vector_to(light.position, surface))
    ELSE light.direction

-----------------------------------------------------------------------------
(* environments/scene.rs *)

RECURSIVE SelectLoop(_, _, _)
\* the loop of Scene::select_first_hit; min_hit is an Option (a sequence of
\* length <= 1)
SelectLoop(hits, min_hit, min_distance) ==
    IF hits = <<>> THEN min_hit
    ELSE LET hit == Head(hits) IN
         IF hit.distance < 0 THEN SelectLoop(Tail(hits), min_hit, min_distance)
         ELSE IF ~hit.entering THEN SelectLoop(Tail(hits), min_hit, min_distance)
         ELSE IF hit.distance < min_distance
              THEN SelectLoop(Tail(hits), <<hit>>, hit.distance)
              ELSE SelectLoop(Tail(hits), min_hit, min_distance)

\* Scene::select_first_hit
select_first_hit(hits) == SelectLoop(hits, <<>>, F32_MAX)

\* a trace that keeps the hit of the last object that has one
TraceVisitLast(hit, min_hit, min_distance) ==
    IF hit = <<>> THEN [hit |-> min_hit, distance |-> min_distance]
    ELSE [hit |-> hit, distance |-> hit[1].distance]

\* one pass of the loop of Scene::trace: hit is what select_first_hit made
\* of the object's hits, the result the new (min_hit, min_distance)
TraceVisit(hit, min_hit, min_distance) ==
    IF hit = <<>> THEN [hit |-> min_hit, distance |-> min_distance]
    ELSE IF hit[1].distance < min_distance
         THEN [hit |-> hit, distance |-> hit[1].distance]
         ELSE [hit |-> min_hit, distance |-> min_distance]

RECURSIVE TraceLoop(_, _, _)
\* the loop of Scene::trace over the objects from number i on, given the
\* hits of every object; a panic of an intersect ends the call
TraceLoop(hits, i, min) ==
    IF i > Len(hits) THEN [panic |-> FALSE, hit |-> min.hit]
    ELSE IF hits[i].panic THEN [panic |-> TRUE, hit |-> <<>>]
    ELSE TraceLoop(hits, i + 1,
                   TraceVisit(select_first_hit(hits[i].hits), min.hit, min.distance))

\* object.intersect(ray) of every object of the scene
IntersectAll(objects, ray) == [i \in 1..Len(objects) |-> Intersect(objects[i], ray)]

\* Scene::trace
trace(objects, ray) ==
    TraceLoop(IntersectAll(objects, ray), 1, [hit |-> <<>>, distance |-> F32_MAX])

\* the test of Scene::shadowtrace on what select_first_hit made of an
\* object's hits; `hit.distance > 0.0000001` is `> 0` on whole steps
ShadowTest(hit, limit) ==
    hit # <<>> /\ hit[1].distance > 0 /\ hit[1].distance < limit

RECURSIVE ShadowLoop(_, _, _)
\* the loop of Scene::shadowtrace over the objects from number i on
ShadowLoop(hits, i, limit) ==
    IF i > Len(hits) THEN [panic |-> FALSE, found |-> FALSE]
    ELSE IF hits[i].panic THEN [panic |-> TRUE, found |-> FALSE]
    ELSE IF ShadowTest(select_first_hit(hits[i].hits), limit)
         THEN [panic |-> FALSE, found |-> TRUE]
         ELSE ShadowLoop(hits, i + 1, limit)

\* Scene::shadowtrace
shadowtrace(objects, ray, limit) == ShadowLoop(IntersectAll(objects, ray), 1, limit)

\* the shadow ray of Scene::raytrace for the light direction ldir: from the
\* hit towards the light, its origin moved 0.0001 along it
ShadowRay(hit, ldir) ==
    LET direction == negated(ldir)
    IN  [position |-> VAdd(hit.position, VScale(direction, EPSILON)),
         direction |-> direction]

\* the limit Scene::raytrace hands to shadowtrace, ldir.length(), as a
\* distance in steps
ShadowLimit(ldir) == length(ldir) * UNIT

Black == [once |-> "black", lights |-> {}]

\* RaytraceResult { colour: black, depth: 0.0 }, and a panic of the call
Miss(panic) ==
    [panic |-> panic, hit |-> <<>>, colour |-> Black, depth |-> 0, shadow_calls |-> <<>>]

\* the shadow check of Scene::raytrace for one light, ldir being a light
\* direction that faces the surface: the call of shadowtrace it makes
ShadowCall(hit, ldir) == [ray |-> ShadowRay(hit, ldir), limit |-> ShadowLimit(ldir)]

\* what one pass of the loop over the lights does with light number i, call
\* being its shadow call and shadow what shadowtrace returned for it
LightVisit(i, facing, call, shadow, acc) ==
    IF ~facing THEN acc
    ELSE [panic |-> shadow.panic,
          lit |-> IF shadow.panic \/ shadow.found THEN acc.lit ELSE acc.lit \cup {i},
          calls |-> Append(acc.calls, [light |-> i] @@ call)]

\* the pass for a light whose direction is ldir
LightPass(objects, hit, i, ldir, call, acc) ==
    LightVisit(i, ~(dot(ldir, hit.normal) > 0), call,
               shadowtrace(objects, call.ray, call.limit), acc)

RECURSIVE LightLoop(_, _, _, _, _)
\* the loop over the lights in Scene::raytrace, from light number i on:
\* acc.lit is the set of lights whose compute_per_light term was added to the
\* colour, acc.calls the shadowtrace calls made so far
LightLoop(objects, hit, lights, i, acc) ==
    IF i > Len(lights) \/ acc.panic THEN acc
    ELSE LightLoop(objects, hit, lights, i + 1,
                   LightPass(objects, hit, i, get_direction(lights[i], hit.position),
                             ShadowCall(hit, get_direction(lights[i], hit.position)), acc))

\* RaytraceResult of a hit.  The colour is kept as the sum it is: the
\* material's compute_once term of the hit object plus one compute_per_light
\* term for every light in `lit`.
Shaded(hit, loop) ==
    IF loop.panic THEN Miss(TRUE)
    ELSE [panic |-> FALSE, hit |-> <<hit>>,
          colour |-> [once |-> hit.what, lights |-> loop.lit],
          depth |-> hit.distance, shadow_calls |-> loop.calls]

\* the body of Scene::raytrace at depth 0, t being what self.trace(ray)
\* returned
Shade(objects, lights, t) ==
    IF t.panic THEN Miss(TRUE)
    ELSE IF t.hit = <<>> THEN Miss(FALSE)
    ELSE Shaded(t.hit[1],
                LightLoop(objects, t.hit[1], lights, 1,
                          [panic |-> FALSE, lit |-> {}, calls |-> <<>>]))

\* Scene::raytrace at depth 0
raytrace(objects, lights, ray) == Shade(objects, lights, trace(objects, ray))

-----------------------------------------------------------------------------
(* The scenes of the model *)

\* largest number of objects, and of lights, in a scene
MaxObjects == 2

MaxLights == 1

\* largest limit handed to a direct call of shadowtrace
MaxLimit == 4

SceneObjects ==
    { Sphere("S0", At(0, 0, 0), UNIT), Sphere("S7", At(0, 0, 3), UNIT),
      Sphere("S6", At(0, 0, 4), UNIT), Cuboid("C0", At(-1, -1, -1), At(2, 2, 2)),
      Csg("G", "Union",
          Csg("GL", "Union", Sphere("S3", At(-3, 0, 0), UNIT), Sphere("S4", At(-1, 0, 0), UNIT)),
          Csg("GR", "Union", Sphere("S1", At(1, 0, 0), UNIT), Sphere("S5", At(3, 0, 0), UNIT))) }

SceneLights ==
    { PointLight(At(0, 0, 0 - MaxCoord - 2)), PointLight(At(0, 0, MaxCoord + 4)),
      DirectionalLight(Vec(0, 0, 1)), DirectionalLight(Vec(1, 0, 0)) }

\* camera and shadow rays in the plane y = 0, along x or z
SceneRays ==
    { r \in Rays : r.position.y = 0 /\ r.direction.y = 0 }

SeqsUpTo(S, n) == UNION { [1..k -> S] : k \in 0..n }

\* exactly one coordinate of v is not zero
AxisAligned(v) == Cardinality({ c \in {"x", "y", "z"} : v[c] # 0 }) = 1

\* every point light lies on an axis through the point p
OnAxes(lights, p) ==
    \A i \in 1..Len(lights) :
        lights[i].kind = "PointLight" => AxisAligned(VSub(p, lights[i].position))

\* the scenes on which the integer geometry is exact: every point light lies
\* on an axis through the point the ray hits
ExactHit(lights, t) == t.hit # <<>> => OnAxes(lights, t.hit[1].position)

ExactScene(objects, lights, ray) == ExactHit(lights, trace(objects, ray))

SceneIdle ==
    [op |-> "none", objects |-> <<>>, lights |-> <<>>,
     ray |-> [position |-> VZero, direction |-> VZero], limit |-> 0]

SceneRetIdle == Miss(FALSE) @@ [found |-> FALSE]

\* Scene::raytrace(ray, 0), as Environment::raytrace calls it
Raytrace ==
    /\ sceneCall = SceneIdle
    /\ \E objects \in SeqsUpTo(SceneObjects, MaxObjects),
          lights \in SeqsUpTo(SceneLights, MaxLights), ray \in SceneRays :
         /\ ExactScene(objects, lights, ray)
         /\ sceneCall' = [op |-> "raytrace", objects |-> objects, lights |-> lights,
                          ray |-> ray, limit |-> 0]
         /\ sceneRet' = raytrace(objects, lights, ray) @@ [found |-> FALSE]
    /\ UNCHANGED <<csgVars, traceVars, progVars, primVars, renderVars, outVars, shootVars, photonVars>>

\* Scene::shadowtrace(ray, limit)
Shadowtrace ==
    /\ sceneCall = SceneIdle
    /\ \E objects \in SeqsUpTo(SceneObjects, MaxObjects), ray \in SceneRays,
          limit \in 0..MaxLimit :
         LET r == shadowtrace(objects, ray, limit) IN
         /\ sceneCall' = [op |-> "shadowtrace", objects |-> objects, lights |-> <<>>,
                          ray |-> ray, limit |-> limit]
         /\ sceneRet' = [SceneRetIdle EXCEPT !.panic = r.panic, !.found = r.found]
    /\ UNCHANGED <<csgVars, traceVars, progVars, primVars, renderVars, outVars, shootVars, photonVars>>

-----------------------------------------------------------------------------
(* core/framebuffer.rs *)

\* Framebuffer::new panics from this width or height on
FB_LIMIT == 2048

\* Pixel::black
PixelBlack == [colour |-> "black", depth |-> 0]

\* Framebuffer::new: whether it returns, and the framebuffer it returns
FramebufferFits(width, height) == ~(width >= FB_LIMIT \/ height >= FB_LIMIT)

RECURSIVE Resize(_, _)
\* Vec::resize of an empty vector: n copies of the value
Resize(n, value) == IF n = 0 THEN <<>> ELSE Append(Resize(n - 1, value), value)

FramebufferNew(width, height) ==
    [width |-> width, height |-> height, pixels |-> Resize(width * height, PixelBlack)]

\* Framebuffer::framebuffer_index (pixels[index] is element index + 1 here)
framebuffer_index(self, x, y) == y * self.width + x

plot_pixel(self, x, y, colour) ==
    [self EXCEPT !.pixels[framebuffer_index(self, x, y) + 1].colour = colour]

plot_depth(self, x, y, depth) ==
    [self EXCEPT !.pixels[framebuffer_index(self, x, y) + 1].depth = depth]

RECURSIVE SumHeights(_)
SumHeights(fbs) == IF fbs = <<>> THEN 0 ELSE Head(fbs).height + SumHeights(Tail(fbs))

RECURSIVE ExtendPixels(_)
ExtendPixels(fbs) == IF fbs = <<>> THEN <<>> ELSE Head(fbs).pixels \o ExtendPixels(Tail(fbs))

\* Framebuffer::combine_rows (every framebuffer has the width of the first)
combine_rows(fbs) ==
    [width |-> fbs[1].width, height |-> SumHeights(fbs), pixels |-> ExtendPixels(fbs)]

-----------------------------------------------------------------------------
(* cameras/camera.rs, cameras/full_camera.rs *)

\* largest width and height of an image, largest number of render threads
MaxWidth == 2

MaxHeight == 4

MaxWorkers == 3

CameraIdle == [pc |-> "idle", width |-> 0, height |-> 0, num_threads |-> 0]

\* the heights and numbers of threads Camera::render is run with: the small
\* ones, and the first height Framebuffer::new refuses, with one thread (its
\* tile is never allocated)
RenderInputs == ((0..MaxHeight) \X (1..MaxWorkers)) \cup {<<FB_LIMIT, 1>>}

\* FullCamera::get_ray_pixel: the ray through (fx, fy) = ((x + 0.5) / width,
\* (y + 0.5) / height) of the image plane, each kept as numerator and
\* denominator
get_ray_pixel(self, x, y) ==
    [fx |-> <<2 * x + 1, 2 * self.width>>, fy |-> <<2 * y + 1, 2 * self.height>>]

\* Environment::raytrace of the Scene environment: a function of the ray,
\* left uninterpreted
EnvironmentRaytrace(ray) == [colour |-> <<"colour", ray>>, depth |-> <<"depth", ray>>]

\* what the join loop of Camera::render joins next: the threads in the order
\* they were spawned
JoinNextCompleted(joined, done) ==
    IF Len(done) > Len(joined) THEN done[Len(joined) + 1] ELSE Len(joined) + 1

JoinNext(joined, done) == Len(joined) + 1

\* end_y of a thread that gets no extra rows
EndYNoExtra(thread_index, num_threads, rows_per_thread, extra_rows) ==
    (thread_index + 1) * rows_per_thread

\* end_y of the thread thread_index in Camera::render
EndY(thread_index, num_threads, rows_per_thread, extra_rows) ==
    IF thread_index = num_threads - 1
    THEN (thread_index + 1) * rows_per_thread + extra_rows
    ELSE (thread_index + 1) * rows_per_thread

\* the thread Camera::render spawns for thread_index
Spawn(thread_index, num_threads, rows_per_thread, extra_rows) ==
    [start_y |-> thread_index * rows_per_thread,
     end_y |-> EndY(thread_index, num_threads, rows_per_thread, extra_rows),
     y |-> thread_index * rows_per_thread,
     state |-> "spawned",
     framebuffer |-> FramebufferNew(0, 0)]

RECURSIVE RenderPixels(_, _, _, _, _)
\* the loop over x of FullCamera::render_rows for the row y, from x on
RenderPixels(self, framebuffer, start_y, y, x) ==
    IF x >= self.width THEN framebuffer
    ELSE RenderPixels(self,
             plot_depth(plot_pixel(framebuffer, x, y - start_y,
                                   EnvironmentRaytrace(get_ray_pixel(self, x, y)).colour),
                        x, y - start_y, EnvironmentRaytrace(get_ray_pixel(self, x, y)).depth),
             start_y, y, x + 1)

\* what render_rows prints after the row y: progress for the first row, the
\* last two rows and every fifth row, in the first thread only
Progress(i, start_y, end_y, y) ==
    IF start_y # 0 THEN <<>>
    ELSE IF y > 0 /\ y < end_y - 1 /\ y % 5 # 0 THEN <<>>
    ELSE <<[thread |-> i, kind |-> "progress", row |-> y]>>

\* Camera::render up to the end of the spawn loop
Render ==
    /\ camera.pc = "idle"
    /\ \E width \in 1..MaxWidth, input \in RenderInputs :
         /\ camera' = [pc |-> "join", width |-> width, height |-> input[1],
                       num_threads |-> input[2]]
         /\ threads' = [i \in 1..input[2] |->
                          Spawn(i - 1, input[2], input[1] \div input[2],
                                input[1] % input[2])]
         /\ stdout' = Append(stdout, [thread |-> 0, kind |-> "spawning", row |-> 0])
    /\ UNCHANGED <<finished, framebuffers, image, stdout_lock>>
    /\ UNCHANGED <<csgVars, traceVars, progVars, primVars, sceneVars, shootVars, photonVars>>

\* FullCamera::render_rows up to its loop: the tile is created, and the
\* first thread locks standard output
ThreadBegin(i) ==
    /\ i \in 1..Len(threads)
    /\ threads[i].state = "spawned"
    /\ IF ~FramebufferFits(camera.width, threads[i].end_y - threads[i].start_y)
       THEN /\ threads' = [threads EXCEPT ![i].state = "panicked"]
            /\ finished' = Append(finished, i)
            /\ UNCHANGED stdout_lock
       ELSE /\ threads[i].start_y = 0 => stdout_lock = 0
            /\ threads' = [threads EXCEPT
                             ![i].state = "running",
                             ![i].framebuffer =
                                 FramebufferNew(camera.width,
                                                threads[i].end_y - threads[i].start_y)]
            /\ stdout_lock' = IF threads[i].start_y = 0 THEN i ELSE stdout_lock
            /\ UNCHANGED finished
    /\ UNCHANGED <<camera, framebuffers, image, stdout>>
    /\ UNCHANGED <<csgVars, traceVars, progVars, primVars, sceneVars, shootVars, photonVars>>

\* one pass of the loop over y of FullCamera::render_rows
RenderRow(i) ==
    /\ i \in 1..Len(threads)
    /\ threads[i].state = "running"
    /\ threads[i].y < threads[i].end_y
    /\ threads' = [threads EXCEPT
                     ![i].framebuffer = RenderPixels(camera, @, threads[i].start_y,
                                                     threads[i].y, 0),
                     ![i].y = @ + 1]
    /\ stdout' = stdout \o Progress(i, threads[i].start_y, threads[i].end_y, threads[i].y)
    /\ UNCHANGED <<camera, finished, framebuffers, image, stdout_lock>>
    /\ UNCHANGED <<csgVars, traceVars, progVars, primVars, sceneVars, shootVars, photonVars>>

\* the end of FullCamera::render_rows: the first thread prints a newline and
\* drops its lock, the tile is returned
ThreadReturn(i) ==
    /\ i \in 1..Len(threads)
    /\ threads[i].state = "running"
    /\ threads[i].y = threads[i].end_y
    /\ threads' = [threads EXCEPT ![i].state = "finished"]
    /\ finished' = Append(finished, i)
    /\ stdout' = IF threads[i].start_y = 0
                 THEN Append(stdout, [thread |-> i, kind |-> "newline", row |-> 0])
                 ELSE stdout
    /\ stdout_lock' = IF threads[i].start_y = 0 THEN 0 ELSE stdout_lock
    /\ UNCHANGED <<camera, framebuffers, image>>
    /\ UNCHANGED <<csgVars, traceVars, progVars, primVars, sceneVars, shootVars, photonVars>>

\* one pass of the join loop of Camera::render: thread.join().unwrap()
Join ==
    /\ camera.pc = "join"
    /\ Len(framebuffers) < camera.num_threads
    /\ JoinNext(framebuffers, finished) \in 1..Len(threads)
    /\ threads[JoinNext(framebuffers, finished)].state \in {"finished", "panicked"}
    /\ IF threads[JoinNext(framebuffers, finished)].state = "panicked"
       THEN /\ camera' = [camera EXCEPT !.pc = "panicked"]
            /\ UNCHANGED <<threads, framebuffers>>
       ELSE /\ framebuffers' =
                 Append(framebuffers, threads[JoinNext(framebuffers, finished)].framebuffer)
            /\ threads' = [threads EXCEPT ![JoinNext(framebuffers, finished)].state = "joined"]
            /\ UNCHANGED camera
    /\ UNCHANGED <<finished, image, stdout, stdout_lock>>
    /\ UNCHANGED <<csgVars, traceVars, progVars, primVars, sceneVars, shootVars, photonVars>>

\* the end of Camera::render: FrameBuffer::combine_rows(framebuffers)
CombineRows ==
    /\ camera.pc = "join"
    /\ Len(framebuffers) = camera.num_threads
    /\ image' = <<combine_rows(framebuffers)>>
    /\ camera' = [camera EXCEPT !.pc = "done"]
    /\ UNCHANGED <<threads, finished, framebuffers, stdout, stdout_lock>>
    /\ UNCHANGED <<csgVars, traceVars, progVars, primVars, sceneVars, shootVars, photonVars>>

\* the CSG objects of two levels, and the rays of the pixels that look along
\* the x axis
NestedCsgs == { obj \in Csgs : obj.left.kind = "Csg" }

PixelRays ==
    { ray \in Rays : /\ ray.position.y = 0 /\ ray.position.z = 0
                     /\ ray.direction \in {Vec(1, 0, 0), Vec(-1, 0, 0)} }

\* object.intersect(&ray) in Scene::trace for the ray of a pixel
TraceIntersect ==
    /\ primIn = PrimIdle
    /\ \E obj \in NestedCsgs, ray \in PixelRays :
         /\ primIn' = [obj |-> obj, ray |-> ray]
         /\ primOut' = Intersect(obj, ray)
    /\ UNCHANGED <<csgVars, traceVars, progVars, sceneVars, renderVars, outVars, shootVars,
                   photonVars>>

\* Camera::render for an image Framebuffer::new accepts
RenderImage == Render /\ camera'.height < FB_LIMIT

\* a pass of the loop over y of FullCamera::render_rows in which
\* environment.raytrace panics with "HitVec overflow": the intersect of the
\* object with the ray of a pixel pushed onto a full HitVec.  The thread
\* unwinds, which drops its lock of standard output, and returns no tile
RenderRowOverflow(i) ==
    /\ i \in 1..Len(threads)
    /\ threads[i].state = "running"
    /\ threads[i].y < threads[i].end_y
    /\ primOut.panic
    /\ threads' = [threads EXCEPT ![i].state = "panicked"]
    /\ finished' = Append(finished, i)
    /\ stdout_lock' = IF threads[i].start_y = 0 THEN 0 ELSE stdout_lock
    /\ UNCHANGED <<camera, framebuffers, image, stdout>>
    /\ UNCHANGED <<csgVars, traceVars, progVars, primVars, sceneVars, shootVars, photonVars>>

-----------------------------------------------------------------------------
(* lights/light.rs, lights/point_light.rs: photon emission *)

\* largest number of photons asked of shoot_photons_mt
MaxPhotons == 4

\* the first thread prints its progress every so many photons
PROGRESS_EVERY == 10000

\* the lights that implement PhotonLight
PhotonLights == {"PointLight", "DPLight"}

ShootIdle ==
    [pc |-> "idle", light |-> "PointLight", num_photons |-> 0, num_threads |-> 0,
     caustic_photons |-> <<>>, photons |-> <<>>]

\* a landed photon; it is named after the emission it comes from (the thread
\* and its loop index i) in place of its position, direction and intensity
Photon(thread_index, i, photon_type) ==
    [emitted_by |-> <<thread_index, i>>, photon_type |-> photon_type]

\* PhotonScene::photontrace of an emitted photon: the photons it may land
photontrace(thread_index, i) ==
    { <<>>,
      <<Photon(thread_index, i, "Colour")>>,
      <<Photon(thread_index, i, "Caustic")>>,
      <<Photon(thread_index, i, "Colour"), Photon(thread_index, i, "Shadow")>> }

\* the caustic_photons argument, an Option: None, an empty slice, a slice
\* with a photon of an earlier pass
CausticInputs == { <<>>, << <<>> >>, << <<Photon(0, 0, "Caustic")>> >> }

\* num_photons of a thread that gets no extra photons
PhotonsOfNoExtra(thread_index, num_threads, photons_per_thread, extra_photons) ==
    photons_per_thread

\* num_photons of the thread thread_index in shoot_photons_mt
PhotonsOf(thread_index, num_threads, photons_per_thread, extra_photons) ==
    IF thread_index = num_threads - 1
    THEN photons_per_thread + extra_photons
    ELSE photons_per_thread

\* the thread shoot_photons_mt spawns for thread_index
SpawnShooter(thread_index, num_threads, photons_per_thread, extra_photons) ==
    [num_photons |-> PhotonsOf(thread_index, num_threads, photons_per_thread,
                               extra_photons),
     first_thread |-> thread_index = 0,
     i |-> 0,
     photons |-> <<>>,
     state |-> "spawned"]

\* what a shooting thread prints after the photon i; the regular pass of a
\* DPLight prints after its last photon as well
ShootProgress(t, first_thread, i, last) ==
    IF first_thread /\ (i % PROGRESS_EVERY = 0 \/ last)
    THEN <<[thread |-> t, kind |-> "photons shot", row |-> i]>>
    ELSE <<>>

\* shoot_photons_mt up to the end of the spawn loop
ShootPhotonsMt ==
    /\ shoot.pc = "idle"
    /\ \E light \in PhotonLights, num_photons \in 0..MaxPhotons,
          num_threads \in 1..MaxWorkers, caustic_photons \in CausticInputs :
         /\ shoot' = [pc |-> "join", light |-> light, num_photons |-> num_photons,
                      num_threads |-> num_threads,
                      caustic_photons |-> caustic_photons, photons |-> <<>>]
         /\ shooters' = [t \in 1..num_threads |->
                           SpawnShooter(t - 1, num_threads, num_photons \div num_threads,
                                        num_photons % num_threads)]
         /\ stdout' = Append(stdout, [thread |-> 0, kind |-> "spawning", row |-> 0])
    /\ UNCHANGED <<stdout_lock, csgVars, traceVars, progVars, primVars, sceneVars, renderVars, photonVars>>

\* the thread function up to the loop of shoot_regular_photons or
\* shoot_caustic_photons; that of PointLight returns at once on an empty
\* slice
ShooterBegin(t) ==
    /\ t \in 1..Len(shooters)
    /\ shooters[t].state = "spawned"
    /\ shooters' = [shooters EXCEPT ![t].state =
                      IF shoot.light = "PointLight" /\ shoot.caustic_photons = << <<>> >>
                      THEN "finished" ELSE "running"]
    /\ UNCHANGED <<shoot, outVars, csgVars, traceVars, progVars, primVars, sceneVars, renderVars, photonVars>>

\* one pass of the loop: a photon is emitted and traced, what lands is
\* appended to the vector of the thread.  In the caustic pass of a DPLight
\* caustic_photons.choose(..).unwrap() panics on an empty slice.
ShootOne(t) ==
    /\ t \in 1..Len(shooters)
    /\ shooters[t].state = "running"
    /\ shooters[t].i < shooters[t].num_photons
    /\ IF shoot.caustic_photons = << <<>> >>
       THEN /\ shooters' = [shooters EXCEPT ![t].state = "panicked"]
            /\ UNCHANGED stdout
       ELSE /\ \E traced_photons \in photontrace(t - 1, shooters[t].i) :
                 shooters' = [shooters EXCEPT ![t].photons = @ \o traced_photons,
                                              ![t].i = @ + 1]
            /\ stdout' = stdout \o
                   ShootProgress(t, shooters[t].first_thread, shooters[t].i,
                                 /\ shoot.light = "DPLight"
                                 /\ shoot.caustic_photons = <<>>
                                 /\ shooters[t].i = shooters[t].num_photons - 1)
    /\ UNCHANGED <<shoot, stdout_lock, csgVars, traceVars, progVars, primVars, sceneVars, renderVars, photonVars>>

\* the end of shoot_regular_photons or shoot_caustic_photons
ShooterReturn(t) ==
    /\ t \in 1..Len(shooters)
    /\ shooters[t].state = "running"
    /\ shooters[t].i = shooters[t].num_photons
    /\ shooters' = [shooters EXCEPT ![t].state = "finished"]
    /\ stdout' = IF shooters[t].first_thread
                 THEN Append(stdout, [thread |-> t, kind |-> "newline", row |-> 0])
                 ELSE stdout
    /\ UNCHANGED <<shoot, stdout_lock, csgVars, traceVars, progVars, primVars, sceneVars, renderVars, photonVars>>

\* the thread the join loop of shoot_photons_mt joins next
JoinShooterNext(photons) == Len(photons) + 1

\* one pass of the join loop: photons.push(threads.join().unwrap())
JoinShooter ==
    /\ shoot.pc = "join"
    /\ Len(shoot.photons) < shoot.num_threads
    /\ shooters[JoinShooterNext(shoot.photons)].state \in {"finished", "panicked"}
    /\ IF shooters[JoinShooterNext(shoot.photons)].state = "panicked"
       THEN /\ shoot' = [shoot EXCEPT !.pc = "panicked"]
            /\ UNCHANGED <<shooters, stdout>>
       ELSE /\ shoot' = [shoot EXCEPT !.photons =
                           Append(@, shooters[JoinShooterNext(shoot.photons)].photons)]
            /\ shooters' = [shooters EXCEPT
                               ![JoinShooterNext(shoot.photons)].state = "joined"]
            /\ stdout' = Append(stdout, [thread |-> 0, kind |-> "threads finished",
                                         row |-> Len(shoot.photons) + 1])
    /\ UNCHANGED <<stdout_lock, csgVars, traceVars, progVars, primVars, sceneVars, renderVars, photonVars>>

\* the end of shoot_photons_mt: the vectors are returned
ShootReturn ==
    /\ shoot.pc = "join"
    /\ Len(shoot.photons) = shoot.num_threads
    /\ shoot' = [shoot EXCEPT !.pc = "done"]
    /\ stdout' = Append(stdout, [thread |-> 0, kind |-> "newline", row |-> 0])
    /\ UNCHANGED <<shooters, stdout_lock, csgVars, traceVars, progVars, primVars, sceneVars, renderVars, photonVars>>

-----------------------------------------------------------------------------
(* environments/photon_scene.rs, core/photon_tree.rs *)

\* largest number of lights added to a PhotonScene
MaxPhotonLights == 2

\* PhotonScene::new: no lights, both photon maps None; returned keeps the
\* landed photons the calls of shoot_photons_mt returned to build_photon_maps
PSceneNew ==
    [pc |-> "new", lights |-> <<>>, regular_photon_map |-> <<>>, caustic_photon_map |-> <<>>,
     returned |-> <<>>]

BuilderIdle == [state |-> "none", photons |-> <<>>, tree |-> <<>>]

\* PhotonTree::build: the tree of the photons of a finalised vector
PhotonTreeBuild(photons) ==
    [size |-> Len(photons), points |-> { photons[k] : k \in 1..Len(photons) }]

\* PhotonTree::get_within_distance: the photons of the tree around a
\* position, any part of the tree as the position varies; the tree is left
\* as it is
get_within_distance(tree) == SUBSET tree.points

RECURSIVE Flatten(_)
\* Iterator::flatten of a vector of vectors
Flatten(photons) == IF photons = <<>> THEN <<>> ELSE Head(photons) \o Flatten(Tail(photons))

RECURSIVE PopAll(_)
\* the loop of flatten_photons: the vectors are popped from the end
PopAll(photons) ==
    IF photons = <<>> THEN <<>>
    ELSE photons[Len(photons)] \o PopAll(SubSeq(photons, 1, Len(photons) - 1))

\* PhotonScene::flatten_photons
flatten_photons(photons) ==
    IF photons = <<>> THEN <<>>
    ELSE IF Len(photons) = 1 THEN photons[1]
    ELSE PopAll(photons)

IsCaustic(photon) == photon.photon_type = "Caustic"

IsRegular(photon) == photon.photon_type # "Caustic"

\* what shoot_photons_mt may return in a PhotonScene: the vector of one
\* thread that emitted one photon, or a panic, as in the caustic pass of a
\* DPLight without caustic photons.  The passes themselves, with their
\* threads and progress lines, are the actions of SpecShoot.
EmissionResults(light, caustic_photons) ==
    IF caustic_photons = << <<>> >>
    THEN { [panic |-> light = "DPLight", photons |-> << <<>> >>] }
    ELSE { [panic |-> FALSE, photons |-> <<traced_photons>>] :
             traced_photons \in photontrace(0, 0) }

\* the closure build_photon_maps hands to shoot_photons, for one light:
\* photons is the result of the first pass, more_caustic_photons that of the
\* second
LightPhotons(photons, more_caustic_photons) ==
    [panic |-> more_caustic_photons.panic,
     returned |-> Flatten(photons.photons) \o Flatten(more_caustic_photons.photons),
     regular |-> SelectSeq(Flatten(photons.photons), IsRegular),
     caustic |-> SelectSeq(Flatten(photons.photons), IsCaustic)
                   \o flatten_photons(more_caustic_photons.photons)]

\* what the closure may return for a light
LightOutcomes(light) ==
    UNION { { LightPhotons(photons, more) :
                more \in EmissionResults(light,
                            <<SelectSeq(Flatten(photons.photons), IsCaustic)>>) } :
            photons \in EmissionResults(light, <<>>) }

\* what the closure may return for each of the lights
ShootOutcomes(lights) ==
    { light_photons \in [1..Len(lights) -> UNION { LightOutcomes(l) : l \in PhotonLights }] :
        \A l \in 1..Len(lights) : light_photons[l] \in LightOutcomes(lights[l]) }

RECURSIVE Pushed(_, _)
\* the loop of shoot_photons: the vectors .0 (regular) or .1 (caustic) the
\* closure returned, pushed in the order of the lights
Pushed(light_photons, c) ==
    IF Len(light_photons) = 0 THEN <<>>
    ELSE Append(Pushed(SubSeq(light_photons, 1, Len(light_photons) - 1), c),
                IF c = 0 THEN light_photons[Len(light_photons)].regular
                ELSE light_photons[Len(light_photons)].caustic)

RECURSIVE Returned(_)
\* the landed photons of all the vectors shoot_photons_mt returned, light
\* after light
Returned(light_photons) ==
    IF Len(light_photons) = 0 THEN <<>>
    ELSE Returned(SubSeq(light_photons, 1, Len(light_photons) - 1))
           \o light_photons[Len(light_photons)].returned

\* PhotonScene::shoot_photons, given what the closure returned for every light
shoot_photons(light_photons) ==
    [panic |-> \E l \in 1..Len(light_photons) : light_photons[l].panic,
     regular |-> flatten_photons(Pushed(light_photons, 0)),
     caustic |-> flatten_photons(Pushed(light_photons, 1))]

\* the thread build_photon_maps spawns for a photon vector
SpawnBuilder(photons) == [state |-> "running", photons |-> photons, tree |-> <<>>]

\* a photon map left None when its tree is empty
MapOfNonEmpty(builder) == IF builder.tree[1].size = 0 THEN <<>> ELSE <<builder.tree[1]>>

\* Some(handle.join().unwrap()) of a finished tree-building thread
MapOf(builder) == <<builder.tree[1]>>

\* no raytrace call is under way: what a &mut self call needs
NoTileCalls == \A w \in DOMAIN tiles : tiles[w] = "idle"

\* Environment::add_light
AddPhotonLight ==
    /\ pscene.pc = "new"
    /\ NoTileCalls
    /\ Len(pscene.lights) < MaxPhotonLights
    /\ \E light \in PhotonLights : pscene' = [pscene EXCEPT !.lights = Append(@, light)]
    /\ UNCHANGED <<builders, tiles, outVars, csgVars, traceVars, progVars, primVars, sceneVars, renderVars, shootVars>>

\* what build_photon_maps does with the photons shot, up to the second
\* thread::spawn; a panic while shooting leaves the scene with its lights
\* taken
PhotonsShot(shot, returned) ==
    IF shot.panic
    THEN /\ pscene' = [pscene EXCEPT !.pc = "panicked", !.lights = <<>>,
                                     !.returned = returned]
         /\ UNCHANGED <<builders, stdout>>
    ELSE /\ pscene' = [pscene EXCEPT !.pc = "join regular", !.returned = returned]
         /\ builders' = [regular |-> SpawnBuilder(shot.regular),
                         caustic |-> SpawnBuilder(shot.caustic)]
         /\ stdout' = Append(stdout,
                             [thread |-> 0, kind |-> "Building KD trees...", row |-> 0])

\* pre_render, build_photon_maps up to the second thread::spawn
PreRender ==
    /\ pscene.pc = "new"
    /\ NoTileCalls
    /\ \E light_photons \in ShootOutcomes(pscene.lights) :
         PhotonsShot(shoot_photons(light_photons), Returned(light_photons))
    /\ UNCHANGED <<tiles, stdout_lock, csgVars, traceVars, progVars, primVars, sceneVars, renderVars, shootVars>>

\* a tree-building thread: PhotonTree::build, println
BuildTree(which) ==
    /\ builders[which].state = "running"
    /\ builders' = [builders EXCEPT
                      ![which].state = "finished",
                      ![which].tree = <<PhotonTreeBuild(builders[which].photons)>>]
    /\ stdout' = Append(stdout, [thread |-> which, kind |-> "photon map built", row |-> 0])
    /\ UNCHANGED <<pscene, tiles, stdout_lock, csgVars, traceVars, progVars, primVars, sceneVars, renderVars,
                   shootVars>>

\* self.regular_photon_map = Some(regular_photon_map.join().unwrap())
JoinRegular ==
    /\ pscene.pc = "join regular"
    /\ builders.regular.state = "finished"
    /\ pscene' = [pscene EXCEPT !.regular_photon_map = MapOf(builders.regular),
                                !.pc = "join caustic"]
    /\ builders' = [builders EXCEPT !.regular.state = "joined"]
    /\ UNCHANGED <<tiles, outVars, csgVars, traceVars, progVars, primVars, sceneVars, renderVars, shootVars>>

\* self.caustic_photon_map = Some(caustic_photon_map.join().unwrap()), and
\* pre_render returns
JoinCaustic ==
    /\ pscene.pc = "join caustic"
    /\ builders.caustic.state = "finished"
    /\ pscene' = [pscene EXCEPT !.caustic_photon_map = MapOf(builders.caustic),
                                !.pc = "ready"]
    /\ builders' = [builders EXCEPT !.caustic.state = "joined"]
    /\ UNCHANGED <<tiles, outVars, csgVars, traceVars, progVars, primVars, sceneVars, renderVars, shootVars>>

\* PhotonScene::raytrace of a tile worker up to the surface term of
\* vueontrace: no hit, or a hit whose material has no surface weight,
\* returns without a look at the maps
TileRaytrace(w) ==
    /\ pscene.pc \in {"new", "ready"}
    /\ tiles[w] = "idle"
    /\ \E surface \in BOOLEAN :
         tiles' = [tiles EXCEPT ![w] = IF surface THEN "average" ELSE "idle"]
    /\ UNCHANGED <<pscene, builders, outVars, csgVars, traceVars, progVars, primVars, sceneVars, renderVars,
                   shootVars>>

\* average_photon_of_type_at(hit, caustic): expect("Photon map not built"),
\* then the query of the map; average_photon_at asks for the regular
\* photons first.  The panic of a worker ends the render: nothing is called
\* on the scene afterwards.
TileAverage(w, caustic) ==
    /\ tiles[w] = (IF caustic THEN "regular" ELSE "average")
    /\ IF (IF caustic THEN pscene.caustic_photon_map ELSE pscene.regular_photon_map) = <<>>
       THEN /\ tiles' = [tiles EXCEPT ![w] = "panicked"]
            /\ pscene' = [pscene EXCEPT !.pc = "aborted"]
       ELSE /\ \E neighbour_photons \in
                   get_within_distance((IF caustic THEN pscene.caustic_photon_map
                                        ELSE pscene.regular_photon_map)[1]) :
                 tiles' = [tiles EXCEPT ![w] = IF caustic THEN "idle" ELSE "regular"]
            /\ UNCHANGED pscene
    /\ UNCHANGED <<builders, outVars, csgVars, traceVars, progVars, primVars, sceneVars, renderVars, shootVars>>

-----------------------------------------------------------------------------
(* materials/material.rs, phong_material.rs, falsecolour_material.rs,
   global_material.rs, compound_material.rs *)

\* Monochrome, Texture (both Phong) and FalseColour
Monochrome == [class |-> "Monochrome"]

Texture == [class |-> "Texture"]

FalseColour == [class |-> "FalseColour"]

\* GlobalMaterial::new, the weights in tenths
GlobalMaterial(reflect_weight, refract_weight) ==
    [class |-> "GlobalMaterial", reflect_weight |-> reflect_weight,
     refract_weight |-> refract_weight]

\* CompoundMaterial::new followed by add_material for every material
CompoundMaterial(materials) == [class |-> "CompoundMaterial", materials |-> materials]

PhotonBehaviours == <<"Absorb", "Diffuse", "Specular", "ReflectOrRefract">>

\* a mean that forgets to divide
RatDivByOne(a, n) == <<a[1], a[2]>>

\* f32 values as fractions <<numerator, denominator>>; 0 / 0 is NaN
RatAdd(a, b) == <<a[1] * b[2] + b[1] * a[2], a[2] * b[2]>>

RatDiv(a, n) == <<a[1], a[2] * n>>

RatPositive(a) == a[2] > 0 /\ a[1] > 0

RatIsNaN(a) == a[2] = 0

RECURSIVE behaviour_weight(_, _)

RECURSIVE WeightSum(_, _)
\* the fold of CompoundMaterial::behaviour_weight
WeightSum(materials, behaviour) ==
    IF materials = <<>> THEN <<0, 1>>
    ELSE RatAdd(WeightSum(SubSeq(materials, 1, Len(materials) - 1), behaviour),
                behaviour_weight(materials[Len(materials)], behaviour))

\* PhotonMaterial::behaviour_weight: the default of the trait, that of
\* GlobalMaterial, and the mean over the materials of a CompoundMaterial
behaviour_weight(material, behaviour) ==
    IF material.class = "CompoundMaterial"
    THEN RatDiv(WeightSum(material.materials, behaviour), Len(material.materials))
    ELSE IF material.class = "GlobalMaterial"
    THEN (IF behaviour = "ReflectOrRefract" THEN <<10, 10>> ELSE <<0, 10>>)
    ELSE CASE behaviour = "Absorb" -> <<6, 10>>
           [] behaviour = "Diffuse" -> <<3, 10>>
           [] behaviour = "Specular" -> <<1, 10>>
           [] behaviour = "ReflectOrRefract" -> <<0, 10>>

RECURSIVE bounced_photon(_)
\* PhotonMaterial::bounced_photon, whether it is Some: None for
\* GlobalMaterial, Some for a CompoundMaterial when one of its materials is
bounced_photon(material) ==
    IF material.class = "CompoundMaterial"
    THEN \E k \in 1..Len(material.materials) : bounced_photon(material.materials[k])
    ELSE material.class # "GlobalMaterial"

RECURSIVE refracted_direction(_, _)
\* PhotonMaterial::refracted_direction, whether it is Some: GlobalMaterial
\* refracts when it has a refract weight and there is no total internal
\* reflection, CompoundMaterial when one of its materials does
refracted_direction(material, total_reflection) ==
    IF material.class = "CompoundMaterial"
    THEN \E k \in 1..Len(material.materials) :
           refracted_direction(material.materials[k], total_reflection)
    ELSE IF material.class = "GlobalMaterial"
    THEN material.refract_weight # 0 /\ ~total_reflection
    ELSE FALSE

\* GlobalMaterial::compute_once without its depth test
GlobalComputeOnceNoCap(material, depth, total_reflection) ==
    (IF material.reflect_weight > 0 THEN <<depth + 1>> ELSE <<>>)
    \o (IF refracted_direction(material, total_reflection) THEN <<depth + 1>> ELSE <<>>)

\* GlobalMaterial::compute_once, the depths of the Scene::raytrace calls it
\* makes: none at depth 5 or more; else one for the reflected ray when
\* reflect_weight > 0 and one for the refracted ray when refract_weight > 0
\* and refraction() is Some, both with depth + 1
GlobalComputeOnce(material, depth, total_reflection) ==
    IF depth >= MAX_DEPTH THEN <<>>
    ELSE (IF material.reflect_weight > 0 THEN <<depth + 1>> ELSE <<>>)
         \o (IF refracted_direction(material, total_reflection) THEN <<depth + 1>>
             ELSE <<>>)

RECURSIVE compute_once(_, _, _)
\* Material::compute_once, the depths of the Scene::raytrace calls it makes:
\* none for the Phong materials and FalseColour, those of every material of
\* a CompoundMaterial, which hands its own depth on
compute_once(material, depth, total_reflection) ==
    IF material.class = "CompoundMaterial"
    THEN IF material.materials = <<>> THEN <<>>
         ELSE compute_once(material.materials[1], depth, total_reflection)
              \o compute_once(CompoundMaterial(Tail(material.materials)), depth,
                              total_reflection)
    ELSE IF material.class = "GlobalMaterial"
    THEN GlobalComputeOnce(material, depth, total_reflection)
    ELSE <<>>

-----------------------------------------------------------------------------
(* The recursive traces: Scene::raytrace through Material::compute_once,
   PhotonScene::vueontrace and PhotonScene::photontrace.  What a ray hits is
   the choice of the scene; the call stack holds one frame per nested call. *)

\* Scene::trace returned None: the ray hit nothing
NoMaterial == [class |-> "None"]

CallsIdle ==
    [op |-> "idle", pc |-> "idle", stack |-> <<>>, photon |-> "none", hit |-> NoMaterial]

GlassMaterial == GlobalMaterial(5, 5)

MirrorMaterial == GlobalMaterial(5, 0)

\* CompoundMaterial::new_simple
SimpleMaterial == CompoundMaterial(<<Monochrome, MirrorMaterial>>)

TraceMaterials == {Monochrome, MirrorMaterial, GlassMaterial, SimpleMaterial}

\* what Scene::trace returned: None or the material of the first hit
TraceHits == {NoMaterial} \cup TraceMaterials

\* the frame of a Scene::raytrace(ray, depth) call: the depths of the calls
\* its compute_once still has to make
RaytraceFrame(depth, hit, total_reflection) ==
    [depth |-> depth,
     rays |-> IF hit.class = "None" THEN <<>>
              ELSE compute_once(hit, depth, total_reflection)]

\* Environment::raytrace of Scene: Scene::raytrace(ray, 0)
PrimaryRaytrace(hit, total_reflection) ==
    /\ calls.pc = "idle"
    /\ calls' = [calls EXCEPT !.op = "raytrace", !.pc = "running",
                              !.hit = hit,
                              !.stack = <<RaytraceFrame(0, hit, total_reflection)>>]
    /\ UNCHANGED <<csgVars, primVars, sceneVars, renderVars, outVars, shootVars, photonVars, progVars>>

\* a nested call: the frame on top gives up its next ray and the frame of
\* the callee is pushed; a call on a full stack overflows it.  calls.hit is
\* what the ray of the latest call hit
Nested(frame, hit) ==
    LET top == Len(calls.stack)
    IN  IF top >= MaxStack
        THEN [calls EXCEPT !.pc = "overflow"]
        ELSE [calls EXCEPT !.hit = hit,
                           !.stack = Append([@ EXCEPT ![top].rays = Tail(@)], frame)]

\* compute_once of the frame on top calls scene.raytrace for its next ray
ComputeOnceRaytrace(hit, total_reflection) ==
    /\ calls.op = "raytrace" /\ calls.pc = "running"
    /\ calls.stack # <<>>
    /\ calls.stack[Len(calls.stack)].rays # <<>>
    /\ calls' = Nested(RaytraceFrame(Head(calls.stack[Len(calls.stack)].rays), hit,
                                     total_reflection), hit)
    /\ UNCHANGED <<csgVars, primVars, sceneVars, renderVars, outVars, shootVars, photonVars, progVars>>

\* the call on top has made all its calls and returns to its caller
TraceReturn ==
    /\ calls.op \in {"raytrace", "vueontrace"} /\ calls.pc = "running"
    /\ calls.stack # <<>>
    /\ calls.stack[Len(calls.stack)].rays = <<>>
    /\ calls' = [calls EXCEPT !.stack = SubSeq(@, 1, Len(@) - 1),
                              !.pc = IF Len(calls.stack) = 1 THEN "returned" ELSE @]
    /\ UNCHANGED <<csgVars, primVars, sceneVars, renderVars, outVars, shootVars, photonVars, progVars>>

\* the frame of a PhotonScene::vueontrace call: the vueontrace calls it still
\* has to make, one for the reflected vueon when the ReflectOrRefract weight
\* of the material is > 0.0 and one for the refracted vueon when
\* refracted_direction is Some; the function takes no depth
VueonFrame(hit, total_reflection) ==
    [rays |-> IF hit.class = "None" THEN <<>>
              ELSE (IF RatPositive(behaviour_weight(hit, "ReflectOrRefract"))
                    THEN <<"reflect">> ELSE <<>>)
                   \o (IF refracted_direction(hit, total_reflection)
                       THEN <<"refract">> ELSE <<>>)]

\* Environment::raytrace of PhotonScene: vueontrace of the primary ray
PhotonSceneRaytrace(hit, total_reflection) ==
    /\ calls.pc = "idle"
    /\ calls' = [calls EXCEPT !.op = "vueontrace", !.pc = "running",
                              !.hit = hit,
                              !.stack = <<VueonFrame(hit, total_reflection)>>]
    /\ UNCHANGED <<csgVars, primVars, sceneVars, renderVars, outVars, shootVars, photonVars, progVars>>

\* the vueontrace call on top calls vueontrace for its next vueon
Vueontrace(hit, total_reflection) ==
    /\ calls.op = "vueontrace" /\ calls.pc = "running"
    /\ calls.stack # <<>>
    /\ calls.stack[Len(calls.stack)].rays # <<>>
    /\ calls' = Nested(VueonFrame(hit, total_reflection), hit)
    /\ UNCHANGED <<csgVars, primVars, sceneVars, renderVars, outVars, shootVars, photonVars, progVars>>

\* a light calls scene.photontrace for a photon it emits: of kind Colour in
\* the regular pass, of kind Caustic in the caustic pass
PhotontraceRoot(photon_type) ==
    /\ calls.pc = "idle"
    /\ calls' = [calls EXCEPT !.op = "photontrace", !.pc = "trace",
                              !.photon = photon_type]
    /\ UNCHANGED <<csgVars, primVars, sceneVars, renderVars, outVars, shootVars, photonVars, progVars>>

\* the photontrace call just entered traces its ray: on a miss it returns
\* an empty vector, on a hit it goes on to choose a behaviour
PhotontraceTrace(hit) ==
    /\ calls.op = "photontrace" /\ calls.pc = "trace"
    /\ calls' = [calls EXCEPT
           !.hit = hit,
           !.photon = IF hit = NoMaterial THEN "none" ELSE @,
           !.pc = IF hit # NoMaterial THEN "choose"
                  ELSE IF calls.stack = <<>> THEN "returned" ELSE "unwind"]
    /\ UNCHANGED <<csgVars, primVars, sceneVars, renderVars, outVars, shootVars, photonVars, progVars>>

\* SliceRandom::choose_weighted fails when a weight is NaN or when no
\* weight is positive
ChooseWeightedFails(material) ==
    \/ \E b \in 1..Len(PhotonBehaviours) :
          RatIsNaN(behaviour_weight(material, PhotonBehaviours[b]))
    \/ \A b \in 1..Len(PhotonBehaviours) :
          ~RatPositive(behaviour_weight(material, PhotonBehaviours[b]))

\* the photon absorb_photon makes is of kind Colour whatever the kind of the
\* photon in flight; photontrace makes it Caustic in the ReflectOrRefract
\* branch only
Absorbed(photon_type, choice) ==
    IF choice = "ReflectOrRefract" THEN "Caustic" ELSE "Colour"

\* the kind of the photon in flight that the chosen branch traces next
Bounced(choice) ==
    CASE choice = "Absorb" -> "none"
      [] choice \in {"Diffuse", "Specular"} -> "Colour"
      [] choice = "ReflectOrRefract" -> "Caustic"

\* a fair random source does not avoid Absorb for ever where Absorb has a
\* positive weight: the model lets it do so while the stack has room for
\* one more call
MayChoose(material, choice) ==
    /\ RatPositive(behaviour_weight(material, choice))
    /\ \/ choice = "Absorb"
       \/ ~RatPositive(behaviour_weight(material, "Absorb"))
       \/ Len(calls.stack) + 1 < MaxStack

\* photontrace after the hit: the weighted choice of the behaviour, the
\* absorbed photon and the nested photontrace call of the chosen branch
PhotontraceChoose(choice) ==
    /\ calls.op = "photontrace" /\ calls.pc = "choose"
    /\ IF ChooseWeightedFails(calls.hit)
       THEN calls' = [calls EXCEPT !.pc = "panicked"]
       ELSE /\ MayChoose(calls.hit, choice)
            /\ IF choice \in {"Diffuse", "Specular"} /\ ~bounced_photon(calls.hit)
               THEN calls' = [calls EXCEPT !.pc = "panicked"]
               ELSE IF Len(calls.stack) >= MaxStack
               THEN calls' = [calls EXCEPT !.pc = "overflow"]
               ELSE calls' = [calls EXCEPT
                      !.stack = Append(@, [photon_type |-> calls.photon,
                                           choice |-> choice,
                                           stored |-> Absorbed(calls.photon, choice)]),
                      !.photon = Bounced(choice),
                      !.pc = IF choice = "Absorb" THEN "unwind" ELSE "trace"]
    /\ UNCHANGED <<csgVars, primVars, sceneVars, renderVars, outVars, shootVars, photonVars, progVars>>

\* the photontrace call on top pushes its absorbed photon and returns
PhotontraceReturn ==
    /\ calls.op = "photontrace" /\ calls.pc = "unwind"
    /\ calls.stack # <<>>
    /\ calls' = [calls EXCEPT !.stack = SubSeq(@, 1, Len(@) - 1),
                              !.pc = IF Len(calls.stack) = 1 THEN "returned" ELSE @]
    /\ UNCHANGED <<csgVars, primVars, sceneVars, renderVars, outVars, shootVars, photonVars, progVars>>

-----------------------------------------------------------------------------
(* The weights of the photon behaviours *)

\* the materials that are no CompoundMaterial
LeafMaterials ==
    {Monochrome, Texture, FalseColour, GlobalMaterial(0, 0), MirrorMaterial, GlassMaterial}

\* CompoundMaterial::new with up to MaxMaterials calls of add_material, and
\* such compounds added to a compound together with one more material
WeighedMaterials ==
    LET compounds == { CompoundMaterial(materials) :
                         materials \in SeqsUpTo(LeafMaterials, MaxMaterials) }
    IN  LeafMaterials \cup compounds
        \cup { CompoundMaterial(<<compound, material>>) :
                 compound \in compounds \ {CompoundMaterial(<<>>)},
                 material \in LeafMaterials }

WeighedIdle == [material |-> NoMaterial, weights |-> <<>>, choice |-> "none"]

\* the weights choose_weighted asks the material for, in the order of the
\* behaviours
WeightsOf(material) ==
    [b \in 1..Len(PhotonBehaviours) |-> behaviour_weight(material, PhotonBehaviours[b])]

\* the weighted choice of photontrace on a hit of the material:
\* choose_weighted(..).unwrap() panics when the choice fails, else it picks a
\* behaviour of positive weight
ChooseWeighted(material) ==
    /\ weighed = WeighedIdle
    /\ IF ChooseWeightedFails(material)
       THEN weighed' = [material |-> material, weights |-> WeightsOf(material),
                        choice |-> "panicked"]
       ELSE \E choice \in { PhotonBehaviours[b] : b \in 1..Len(PhotonBehaviours) } :
              /\ RatPositive(behaviour_weight(material, choice))
              /\ weighed' = [material |-> material, weights |-> WeightsOf(material),
                             choice |-> choice]
    /\ UNCHANGED <<build, main, shaded, csgVars, primVars, sceneVars, renderVars, outVars, shootVars,
                   photonVars, traceVars>>

-----------------------------------------------------------------------------
(* materials/phong_material.rs *)

\* core/colour.rs: r, g, b (alpha follows the same arithmetic)
Rgb(r, g, b) == [r |-> r, g |-> g, b |-> b]

ColourAdd(a, b) == Rgb(a.r + b.r, a.g + b.g, a.b + b.b)

ColourMul(a, b) == Rgb(a.r * b.r, a.g * b.g, a.b * b.b)

ColourTimes(a, k) == Rgb(a.r * k, a.g * k, a.b * k)

white == Rgb(1, 1, 1)

black == Rgb(0, 0, 0)

\* the normalised directions of the model: the six axis directions
Directions == AxisDirs

\* colour_at_hit of the Phong materials of the model, and photon intensities
BaseColours == {Rgb(1, 0, 0), Rgb(1, 1, 1), Rgb(0, 1, 1)}

\* shininess values: x.powf(0.0) is 1 for every x, 0.0.powf(s) is 0 for s > 0
Shininesses == {0, 10}

\* Vector::reflection: initial - 2 (self . initial) self
reflection(self, initial) == VSub(initial, VScale(self, 2 * dot(self, initial)))

\* Phong::diffuse: colour_at_hit * (-hit.normal.dot(ldir))
diffuse_strength(normal, ldir) == 0 - dot(normal, ldir)

diffuse(base, normal, ldir) == ColourTimes(base, diffuse_strength(normal, ldir))

\* the same with the strength clamped at 0
diffuse_strength_clamped(normal, ldir) ==
    IF dot(normal, ldir) > 0 THEN 0 ELSE 0 - dot(normal, ldir)

\* Phong::specular: white * max(0, viewer . reflection)^shininess
specular(shininess, normal, ldir, viewer) ==
    LET cosine == dot(viewer, normalised(reflection(normal, ldir)))
        clamped == IF cosine > 0 THEN cosine ELSE 0
    IN  ColourTimes(white, IF shininess = 0 \/ clamped = 1 THEN 1 ELSE 0)

ShadedIdle ==
    [op |-> "none", normal |-> VZero, ldir |-> VZero, diffuse_strength |-> 0,
     diffuse |-> black, colour |-> black]

PhongCall(op, base, normal, ldir, colour) ==
    [op |-> op, normal |-> normal, ldir |-> ldir,
     diffuse_strength |-> diffuse_strength(normal, ldir),
     diffuse |-> diffuse(base, normal, ldir), colour |-> colour]

\* Material::compute_per_light of a Phong material, called by
\* Scene::raytrace for a light that is not facing the wrong way
\* (ldir . hit.normal > 0 makes the light unlit, scene.rs:100)
ComputePerLight(base, shininess, normal, ldir, viewer) ==
    /\ shaded = ShadedIdle
    /\ dot(ldir, normal) <= 0
    /\ shaded' = PhongCall("compute_per_light", base, normal, ldir,
                        ColourAdd(diffuse(base, normal, ldir),
                                  specular(shininess, normal, ldir, viewer)))
    /\ UNCHANGED <<build, main, weighed, csgVars, primVars, sceneVars, renderVars, outVars,
                   shootVars, photonVars, traceVars>>

\* PhotonMaterial::bounced_photon, called by diffuse_photon and
\* specular_photon with the hit of the photon's own ray, whose normal the
\* primitives turn against the ray
BouncedPhoton(base, normal, incident, intensity) ==
    /\ shaded = ShadedIdle
    /\ dot(incident, normal) <= 0
    /\ shaded' = PhongCall("bounced_photon", base, normal, incident,
                        ColourMul(diffuse(base, normal, incident), intensity))
    /\ UNCHANGED <<build, main, weighed, csgVars, primVars, sceneVars, renderVars, outVars,
                   shootVars, photonVars, traceVars>>

\* PhotonMaterial::render_vueon, called by vueontrace with the hit of the
\* vueon's ray and the average of the photons stored within 0.1 of the hit
\* position, whatever direction they arrived from
RenderVueon(base, shininess, normal, incident, viewer, intensity) ==
    /\ shaded = ShadedIdle
    /\ shaded' = PhongCall("render_vueon", base, normal, incident,
                        ColourMul(ColourAdd(diffuse(base, normal, incident),
                                            specular(shininess, normal, incident, viewer)),
                                  intensity))
    /\ UNCHANGED <<build, main, weighed, csgVars, primVars, sceneVars, renderVars, outVars,
                   shootVars, photonVars, traceVars>>

-----------------------------------------------------------------------------
(* scene_file.rs *)

\* most lines of a scene file given as text
MaxLines == 4

\* a line of a scene file: its indentation and its words; flaw is, for the
\* header of a paragraph, what its attributes lead to when the item is built
\* ("asset": the model file is missing, "skew": lookat and up of the camera
\* are not perpendicular)
TextLine(indentation, words, flaw) ==
    [indentation |-> indentation, words |-> words, flaw |-> flaw]

\* the header of a paragraph
Line(indentation, kind, class, flaw) == TextLine(indentation, <<kind, class>>, flaw)

BlankLine == TextLine(0, <<>>, "none")

AttributeLine == TextLine(1, <<"attribute", "1">>, "none")

\* a line whose first character is '#'
CommentLine == TextLine(0, <<"#">>, "none")

\* str::starts_with('#') on a word: the words that do are the word "#" here
StartsWithHash(word) == word = "#"

\* str::parse::<f32>() succeeds on these words
Floats == {"1", "2", "3"}

Headers ==
    { Line(0, "scene", "Scene", "none"), Line(0, "scene", "PhotonScene", "none"),
      Line(0, "camera", "Camera", "none"), Line(0, "camera", "Camera", "skew"),
      Line(0, "light", "Point", "none"), Line(0, "light", "Directional", "none"),
      Line(0, "light", "Spot", "none"),
      Line(0, "object", "Sphere", "none"), Line(0, "object", "Model", "asset"),
      Line(0, "material", "Monochrome", "none") }

\* a paragraph as written: header, attribute lines, an empty line
Written == [header : Headers, attributes : 0..1]

RECURSIVE ContentsOf(_)
\* the lines of the file made of the given paragraphs
ContentsOf(written) ==
    IF written = <<>> THEN <<>>
    ELSE <<Head(written).header>>
         \o [k \in 1..Head(written).attributes |-> AttributeLine]
         \o <<BlankLine>> \o ContentsOf(Tail(written))

\* the files of the model
SceneFiles == UNION { [1..n -> Written] : n \in 0..MaxParagraphs }

\* the lines of the files given as text: an object with a radius, a centre,
\* a material of its own that has a scale, and a scale
TextLines ==
    { Line(0, "object", "Model", "none"),
      TextLine(1, <<"radius", "1">>, "none"),
      TextLine(1, <<"centre", "1", "2", "3">>, "none"),
      TextLine(1, <<"material", "Texture">>, "none"),
      TextLine(2, <<"scale", "2">>, "none"),
      TextLine(1, <<"scale", "3">>, "none"),
      TextLine(1, <<"#">>, "none"),
      BlankLine, CommentLine }

TextFiles == UNION { [1..n -> TextLines] : n \in 0..MaxLines }

\* Ok(value), Err(ParseError {line, message}) and a panic
Ok(value) == [status |-> "Ok", line |-> 0, message |-> "", value |-> value]

Err(line, message) == [status |-> "Err", line |-> line, message |-> message, value |-> <<>>]

Panic(message) == [status |-> "panic", line |-> 0, message |-> message, value |-> <<>>]

\* AttributeValue: Vector, Float, Word or SubParagraph (an Option here)
AttributeValue(type, words, paragraph) ==
    [type |-> type, words |-> words, paragraph |-> paragraph]

\* HashMap::insert on the attributes, a set of Attribute {key, value,
\* line_number} with one attribute per key
Insert(attributes, key, value, line_number) ==
    { a \in attributes : a.key # key }
    \cup { [key |-> key, value |-> value, line_number |-> line_number] }

RECURSIVE ParagraphParse(_, _)

RECURSIVE ParseAttributes(_, _, _, _, _)
\* the loop of Paragraph::parse over the lines after the first, from the
\* line i on (lines[i] here is lines[i - 1] there)
ParseAttributes(lines, i, indentation, first_line_number, attributes) ==
    IF i > Len(lines) THEN Ok(attributes)
    ELSE IF lines[i].words = <<>> \/ lines[i].indentation <= indentation
    THEN Ok(attributes)
    ELSE IF StartsWithHash(lines[i].words[1])
    THEN ParseAttributes(lines, i + 1, indentation, first_line_number, attributes)
    ELSE LET line_number == first_line_number + (i - 1)
             key == lines[i].words[1]
             words == Tail(lines[i].words)
             value ==
                 IF Len(words) = 3
                 THEN IF \A k \in 1..3 : words[k] \in Floats
                      THEN Ok(AttributeValue("Vector", words, <<>>))
                      ELSE Err(line_number, "Invalid float")
                 ELSE IF Len(words) = 1
                 THEN IF i + 1 <= Len(lines)
                         /\ lines[i + 1].indentation > lines[i].indentation
                      THEN LET p == ParagraphParse(SubSeq(lines, i, Len(lines)),
                                                   line_number)
                           IN  IF p.status # "Ok" THEN p
                               ELSE Ok(AttributeValue("SubParagraph", <<>>, <<p.value>>))
                      ELSE Ok(AttributeValue(IF words[1] \in Floats THEN "Float"
                                             ELSE "Word", words, <<>>))
                 ELSE Err(line_number, "Invalid word count in attribute value")
         IN  IF value.status # "Ok" THEN value
             ELSE ParseAttributes(lines, i + 1, indentation, first_line_number,
                                  Insert(attributes, key, value.value, line_number))

\* Paragraph::parse: kind and class from the first line, the attributes from
\* the lines below it
ParagraphParse(lines, first_line_number) ==
    IF Len(lines[1].words) = 0 THEN Err(first_line_number, "Empty paragraph")
    ELSE IF Len(lines[1].words) = 1 THEN Err(first_line_number, "Missing paragraph class")
    ELSE IF Len(lines[1].words) > 2
    THEN Err(first_line_number, "Too many words in paragraph header")
    ELSE LET attributes == ParseAttributes(lines, 2, lines[1].indentation,
                                           first_line_number, {})
         IN  IF attributes.status # "Ok" THEN attributes
             ELSE Ok([kind |-> lines[1].words[1], class |-> lines[1].words[2],
                      flaw |-> lines[1].flaw, attributes |-> attributes.value,
                      start_line |-> first_line_number])

\* the closure process_paragraph of Paragraph::parse_whole_file
ProcessParagraph(paragraphs, lines_in_paragraph, line_number) ==
    IF lines_in_paragraph = <<>> THEN Ok(paragraphs)
    ELSE LET paragraph == ParagraphParse(lines_in_paragraph, line_number)
         IN  IF paragraph.status # "Ok" THEN paragraph
             ELSE Ok(Append(paragraphs, paragraph.value))

RECURSIVE ParseLoop(_, _, _, _, _)
\* the loop of Paragraph::parse_whole_file from line line_number on
ParseLoop(contents, line_number, paragraphs, lines_in_paragraph, paragraph_start_line) ==
    IF line_number > Len(contents)
    THEN ProcessParagraph(paragraphs, lines_in_paragraph, paragraph_start_line)
    ELSE IF \/ contents[line_number].words = <<>>
            \/ /\ contents[line_number].indentation = 0
               /\ StartsWithHash(contents[line_number].words[1])
    THEN LET processed == ProcessParagraph(paragraphs, lines_in_paragraph,
                                           paragraph_start_line)
         IN  IF processed.status # "Ok" THEN processed
             ELSE ParseLoop(contents, line_number + 1, processed.value, <<>>,
                            paragraph_start_line)
    ELSE IF lines_in_paragraph = <<>> /\ contents[line_number].indentation = 0
    THEN ParseLoop(contents, line_number + 1, paragraphs, <<contents[line_number]>>,
                   line_number)
    ELSE IF lines_in_paragraph # <<>> /\ contents[line_number].indentation > 0
    THEN ParseLoop(contents, line_number + 1, paragraphs,
                   Append(lines_in_paragraph, contents[line_number]),
                   paragraph_start_line)
    ELSE Err(line_number, "Started next paragraph without empty newline")

\* Paragraph::parse_whole_file
parse_whole_file(contents) == ParseLoop(contents, 1, <<>>, <<>>, 0)

\* Paragraph::into_item with into_light, into_object, into_material,
\* into_scene and into_camera: PolyMesh::from_obj_file panics when it cannot
\* open the file, FullCamera::new when lookat and up are not perpendicular
into_item(self) ==
    CASE self.kind = "light" ->
           IF self.class \in {"Directional", "Point", "DirPoint"} THEN Ok(self)
           ELSE Err(self.start_line, "Invalid light class")
      [] self.kind = "object" ->
           IF self.class = "Model" /\ self.flaw = "asset"
           THEN Panic("Could not open OBJ file")
           ELSE IF self.class \in {"Sphere", "Model"} THEN Ok(self)
           ELSE Err(self.start_line, "Invalid object class")
      [] self.kind = "material" ->
           IF self.class = "Monochrome" THEN Ok(self)
           ELSE Err(self.start_line, "Invalid material class")
      [] self.kind = "scene" ->
           IF self.class \in {"Scene", "PhotonScene"} THEN Ok(self)
           ELSE Err(self.start_line, "Invalid scene class")
      [] self.kind = "camera" ->
           IF self.class # "Camera" THEN Err(self.start_line, "Invalid camera class")
           ELSE IF self.flaw = "skew"
           THEN Panic("FullCamera right and up are not perpendicular")
           ELSE Ok(self)
      [] OTHER -> Err(self.start_line, "Invalid paragraph kind")

is_scene(self) == self.kind = "scene"

\* the camera from_contents makes when the file has none
DefaultCamera ==
    [kind |-> "camera", class |-> "Camera", flaw |-> "none", attributes |-> {},
     start_line |-> 0]

\* Scene::new, PhotonScene::new
EnvironmentNew(class) == [class |-> class, lights |-> <<>>, objects |-> <<>>]

RECURSIVE AddItems(_, _, _)
\* the loop of from_contents over the paragraphs that are no scene; lights
\* and objects are named by the line their paragraph starts at.
\* PhotonScene::add_light calls Light::photon_light, which panics for a
\* light that is no PhotonLight
AddItems(paragraphs, scene, file_camera) ==
    IF paragraphs = <<>>
    THEN Ok([scene |-> scene,
             camera |-> IF file_camera = <<>> THEN DefaultCamera ELSE file_camera[1]])
    ELSE LET paragraph == Head(paragraphs)
             item == into_item(paragraph)
         IN  IF item.status # "Ok" THEN item
             ELSE CASE paragraph.kind = "light" ->
                         IF scene.class = "PhotonScene" /\ paragraph.class = "Directional"
                         THEN Panic("Light does not support photon mapping")
                         ELSE AddItems(Tail(paragraphs),
                                [scene EXCEPT !.lights = Append(@, paragraph.start_line)],
                                file_camera)
                    [] paragraph.kind = "object" ->
                         AddItems(Tail(paragraphs),
                                [scene EXCEPT !.objects = Append(@, paragraph.start_line)],
                                file_camera)
                    [] paragraph.kind = "camera" ->
                         IF file_camera # <<>>
                         THEN Err(paragraph.start_line, "Multiple cameras in file")
                         ELSE AddItems(Tail(paragraphs), scene, <<paragraph>>)
                    [] paragraph.kind = "material" ->
                         Err(paragraph.start_line,
                             "Cannot add material to scene on its own")

\* SceneFile::from_contents after parse_whole_file
FromParagraphs(scenes, paragraphs) ==
    LET first == IF scenes = <<>> THEN Ok(<<>>) ELSE into_item(scenes[1])
    IN  IF first.status # "Ok" THEN first
        ELSE IF Len(scenes) >= 2
        THEN Err(scenes[2].start_line, "Multiple scenes in file")
        ELSE AddItems(paragraphs,
                      EnvironmentNew(IF scenes = <<>> THEN "Scene" ELSE scenes[1].class),
                      <<>>)

\* SceneFile::from_contents
from_contents(contents) ==
    LET parsed == parse_whole_file(contents)
        NoScene(p) == ~is_scene(p)
    IN  IF parsed.status # "Ok" THEN parsed
        ELSE FromParagraphs(SelectSeq(parsed.value, is_scene),
                            SelectSeq(parsed.value, NoScene))

\* SceneFile::from_path: read_to_string(path).expect(..), then from_contents
from_path(readable, contents) ==
    IF ~readable THEN Panic("Failed to read scene file") ELSE from_contents(contents)

BuildIdle ==
    [pc |-> "idle", written |-> <<>>, readable |-> TRUE, parsed |-> Ok(<<>>),
     result |-> Ok(<<>>)]

\* a call of SceneFile::from_contents
FromContents(written) ==
    /\ build.pc = "idle"
    /\ build' = [pc |-> "from_contents", written |-> written, readable |-> TRUE,
                 parsed |-> parse_whole_file(ContentsOf(written)),
                 result |-> from_contents(ContentsOf(written))]
    /\ UNCHANGED <<main, weighed, shaded, csgVars, primVars, sceneVars, renderVars, outVars,
                   shootVars, photonVars, traceVars>>

\* a call of SceneFile::from_path
FromPath(readable, written) ==
    /\ build.pc = "idle"
    /\ build' = [pc |-> "from_path", written |-> written, readable |-> readable,
                 parsed |-> IF readable THEN parse_whole_file(ContentsOf(written))
                            ELSE Ok(<<>>),
                 result |-> from_path(readable, ContentsOf(written))]
    /\ UNCHANGED <<main, weighed, shaded, csgVars, primVars, sceneVars, renderVars, outVars,
                   shootVars, photonVars, traceVars>>

\* a call of SceneFile::from_contents on a file given line by line; written
\* holds its lines
FromText(contents) ==
    /\ build.pc = "idle"
    /\ build' = [pc |-> "from_text", written |-> contents, readable |-> TRUE,
                 parsed |-> parse_whole_file(contents),
                 result |-> from_contents(contents)]
    /\ UNCHANGED <<main, weighed, shaded, csgVars, primVars, sceneVars, renderVars, outVars,
                   shootVars, photonVars, traceVars>>

-----------------------------------------------------------------------------
(* main.rs *)

\* the process before main runs: no file written, ffmpeg not run, nothing on
\* standard error, no exit code yet (-1)
MainIdle == [pc |-> "start", files |-> {}, ffmpeg |-> "not run", stderr |-> <<>>, exit |-> -1]

\* println! of the main thread
Println(text) == Append(stdout, [thread |-> 0, kind |-> text, row |-> 0])

\* a panic of the main thread: the message goes to standard error, the
\* process exits with code 101
MainPanic(message) == [main EXCEPT !.pc = "panicked", !.stderr = Append(@, message),
                                   !.exit = 101]

\* main: println!("Hello, world!"), build_scene(), FullCamera::new
MainHello ==
    /\ main.pc = "start"
    /\ main' = [main EXCEPT !.pc = "render"]
    /\ stdout' = Println("Hello, world!")
    /\ UNCHANGED <<build, weighed, shaded, stdout_lock, csgVars, primVars, sceneVars, renderVars,
                   shootVars, photonVars, traceVars>>

\* main: camera.render(&scene), for an image Framebuffer::new accepts
MainRender == main.pc = "render" /\ RenderImage

\* main: write_rgb_file and write_depth_file, which unwrap File::create, then
\* println!("Running FFmpeg...")
MainWriteFiles(writable) ==
    /\ main.pc = "render"
    /\ camera.pc = "done"
    /\ IF writable
       THEN /\ main' = [main EXCEPT !.pc = "ffmpeg",
                                    !.files = {"render/rgb.ppm", "render/depth.ppm"}]
            /\ stdout' = Println("Running FFmpeg...")
       ELSE /\ main' = MainPanic("called Result::unwrap() on an Err value")
            /\ UNCHANGED stdout
    /\ UNCHANGED <<build, weighed, shaded, stdout_lock, csgVars, primVars, sceneVars, renderVars,
                   shootVars, photonVars, traceVars>>

\* main: ffmpeg_ppm_to_png, i.e. Command::new("ffmpeg")..output().expect(..),
\* whose Output is dropped, then println!("Done!") and the return of main.
\* started: whether the process could be started; converted: whether ffmpeg
\* wrote the png
MainFfmpeg(started, converted) ==
    /\ main.pc = "ffmpeg"
    /\ IF started
       THEN /\ main' = [main EXCEPT !.pc = "exited", !.ffmpeg = "ran", !.exit = 0,
                                    !.files = IF converted THEN @ \cup {"render/rgb.png"}
                                              ELSE @]
            /\ stdout' = Println("Done!")
       ELSE /\ main' = [MainPanic("Failed to execute ffmpeg") EXCEPT
                                    !.ffmpeg = "not started"]
            /\ UNCHANGED stdout
    /\ UNCHANGED <<build, weighed, shaded, stdout_lock, csgVars, primVars, sceneVars, renderVars,
                   shootVars, photonVars, traceVars>>

-----------------------------------------------------------------------------
(* Specifications *)

Init ==
    /\ csgIn = CsgIdle
    /\ csgOut = NoHits
    /\ primIn = PrimIdle
    /\ primOut = NoHits
    /\ sceneCall = SceneIdle
    /\ sceneRet = SceneRetIdle
    /\ camera = CameraIdle
    /\ threads = <<>>
    /\ finished = <<>>
    /\ framebuffers = <<>>
    /\ image = <<>>
    /\ stdout = <<>>
    /\ stdout_lock = 0
    /\ shoot = ShootIdle
    /\ shooters = <<>>
    /\ pscene = PSceneNew
    /\ builders = [regular |-> BuilderIdle, caustic |-> BuilderIdle]
    /\ tiles = [w \in 1..MaxWorkers |-> "idle"]
    /\ calls = CallsIdle
    /\ build = BuildIdle
    /\ main = MainIdle
    /\ weighed = WeighedIdle
    /\ shaded = ShadedIdle

NextCsg == CsgIntersect

\* Csg::intersect on arbitrary sorted, paired operand streams
SpecCsg == Init /\ [][NextCsg]_vars

NextPrim ==
    \/ IntersectSphere
    \/ IntersectQuadratic
    \/ IntersectCuboid
    \/ IntersectCsg

\* intersect of the closed primitives and of CSG objects built from them
SpecPrim == Init /\ [][NextPrim]_vars

NextScene ==
    \/ Raytrace
    \/ Shadowtrace

\* Scene::raytrace and Scene::shadowtrace on small scenes
SpecScene == Init /\ [][NextScene]_vars

NextRender ==
    \/ Render
    \/ \E i \in 1..MaxWorkers : ThreadBegin(i)
    \/ \E i \in 1..MaxWorkers : RenderRow(i)
    \/ \E i \in 1..MaxWorkers : ThreadReturn(i)
    \/ Join
    \/ CombineRows

\* Camera::render with its render threads, for every image size and number
\* of threads of the model
SpecRender == Init /\ [][NextRender]_vars

NextShoot ==
    \/ ShootPhotonsMt
    \/ \E t \in 1..MaxWorkers : ShooterBegin(t)
    \/ \E t \in 1..MaxWorkers : ShootOne(t)
    \/ \E t \in 1..MaxWorkers : ShooterReturn(t)
    \/ JoinShooter
    \/ ShootReturn

\* PhotonLight::shoot_photons_mt with its shooting threads, for every number
\* of photons and of threads of the model, regular and caustic passes
SpecShoot == Init /\ [][NextShoot]_vars

NextPhotonScene ==
    \/ AddPhotonLight
    \/ PreRender
    \/ \E which \in {"regular", "caustic"} : BuildTree(which)
    \/ JoinRegular
    \/ JoinCaustic
    \/ \E w \in 1..MaxWorkers : TileRaytrace(w)
    \/ \E w \in 1..MaxWorkers, caustic \in BOOLEAN : TileAverage(w, caustic)

\* a PhotonScene from PhotonScene::new on: lights are added, pre_render builds
\* the photon maps, tile workers call raytrace before and after
SpecPhotonScene == Init /\ [][NextPhotonScene]_vars

NextNormals ==
    \/ IntersectSphere
    \/ IntersectQuadratic
    \/ IntersectPlane

\* Sphere::intersect, Quadratic::intersect and Plane::intersect on every ray
SpecNormals == Init /\ [][NextNormals]_vars

NextHitBuffer ==
    \/ TraceIntersect
    \/ RenderImage
    \/ \E i \in 1..MaxWorkers : ThreadBegin(i)
    \/ \E i \in 1..MaxWorkers : RenderRow(i)
    \/ \E i \in 1..MaxWorkers : RenderRowOverflow(i)
    \/ \E i \in 1..MaxWorkers : ThreadReturn(i)
    \/ Join
    \/ CombineRows

\* Camera::render of a scene that holds a CSG object of two levels: the
\* intersect call of a pixel, and the render threads
SpecHitBuffer == Init /\ [][NextHitBuffer]_vars

NextMain ==
    \/ MainHello
    \/ MainRender
    \/ \E i \in 1..MaxWorkers : ThreadBegin(i)
    \/ \E i \in 1..MaxWorkers : RenderRow(i)
    \/ \E i \in 1..MaxWorkers : ThreadReturn(i)
    \/ Join
    \/ CombineRows
    \/ \E writable \in BOOLEAN : MainWriteFiles(writable)
    \/ \E started \in BOOLEAN, converted \in BOOLEAN : MainFfmpeg(started, converted)

\* the run of the binary: main with the render threads of camera.render
SpecMain == Init /\ [][NextMain]_vars

NextWeights == \E material \in WeighedMaterials : ChooseWeighted(material)

\* the weighted choice of photontrace for every material of the model
SpecWeights == Init /\ [][NextWeights]_vars

NextCuboid ==
    \/ IntersectCuboid
    \/ IntersectCuboidOblique

\* Cuboid::intersect on the rays along the axes and along the diagonals
SpecCuboid == Init /\ [][NextCuboid]_vars

NextText == \E contents \in TextFiles : FromText(contents)

\* SceneFile::from_contents on every file of up to MaxLines lines of text
SpecText == Init /\ [][NextText]_vars

NextPhong ==
    \/ \E base \in BaseColours, shininess \in Shininesses, normal \in Directions,
          ldir \in Directions, viewer \in Directions :
            ComputePerLight(base, shininess, normal, ldir, viewer)
    \/ \E base \in BaseColours, normal \in Directions, incident \in Directions,
          intensity \in BaseColours :
            BouncedPhoton(base, normal, incident, intensity)
    \/ \E base \in BaseColours, shininess \in Shininesses, normal \in Directions,
          incident \in Directions, viewer \in Directions, intensity \in BaseColours :
            RenderVueon(base, shininess, normal, incident, viewer, intensity)

SpecPhong == Init /\ [][NextPhong]_vars

NextComposite ==
    \/ PipeIntersect
    \/ MarioPipeIntersect
    \/ CoinIntersect
    \/ MarioCoinIntersect

\* intersect of the objects MarioPipe and MarioCoin, for every combination
\* of hits their leaves return
SpecComposite == Init /\ [][NextComposite]_vars

NextSceneFile ==
    \/ \E written \in SceneFiles : FromContents(written)
    \/ \E readable \in BOOLEAN, written \in SceneFiles : FromPath(readable, written)

\* SceneFile::from_contents and SceneFile::from_path on every file of up to
\* MaxParagraphs paragraphs
SpecSceneFile == Init /\ [][NextSceneFile]_vars

NextWhitted ==
    \/ \E hit \in TraceHits, total_reflection \in BOOLEAN :
          PrimaryRaytrace(hit, total_reflection)
    \/ \E hit \in TraceHits, total_reflection \in BOOLEAN :
          ComputeOnceRaytrace(hit, total_reflection)
    \/ TraceReturn

\* Environment::raytrace of Scene on a primary ray, in any scene: every ray
\* hits any material or nothing; a call that can take a step does
SpecWhitted == Init /\ [][NextWhitted]_vars /\ WF_vars(NextWhitted)

NextVueon ==
    \/ \E hit \in TraceHits, total_reflection \in BOOLEAN :
          PhotonSceneRaytrace(hit, total_reflection)
    \/ \E hit \in TraceHits, total_reflection \in BOOLEAN :
          Vueontrace(hit, total_reflection)
    \/ TraceReturn

\* Environment::raytrace of PhotonScene on a primary ray, in any scene
SpecVueon == Init /\ [][NextVueon]_vars /\ WF_vars(NextVueon)

NextPhotontrace ==
    \/ \E photon_type \in {"Colour", "Caustic"} : PhotontraceRoot(photon_type)
    \/ \E hit \in TraceHits : PhotontraceTrace(hit)
    \/ \E b \in 1..Len(PhotonBehaviours) : PhotontraceChoose(PhotonBehaviours[b])
    \/ PhotontraceReturn

\* PhotonScene::photontrace on a photon a light emits, in any scene
SpecPhotontrace == Init /\ [][NextPhotontrace]_vars /\ WF_vars(NextPhotontrace)

-----------------------------------------------------------------------------
(* Hit streams read as sets of enter/exit intervals *)

Distances(hits) == [i \in 1..Len(hits) |-> hits[i].distance]

\* non-decreasing distance order
SortedByDistance(hits) ==
    \A i \in 1..(Len(hits) - 1) : hits[i].distance <= hits[i + 1].distance

\* an even number of hits, alternately entering and exiting, entering first
AlternatingPairs(hits) ==
    /\ Len(hits) % 2 = 0
    /\ \A i \in 1..Len(hits) : hits[i].entering = (i % 2 = 1)

\* the stretch of the ray between distance k and k + 1 lies in one of the
\* intervals [hits[2i-1], hits[2i]]
Covers(hits, k) ==
    \E i \in 1..(Len(hits) \div 2) :
        hits[2 * i - 1].distance <= k /\ hits[2 * i].distance >= k + 1

\* the boolean combination a CSG mode stands for
Combine(mode, inLeft, inRight) ==
    CASE mode = "Union" -> inLeft \/ inRight
      [] mode = "Intersection" -> inLeft /\ inRight
      [] mode = "Difference" -> inLeft /\ ~inRight

-----------------------------------------------------------------------------
(* Csg::intersect and the primitives *)

\* the distance and flag of every hit, in order
Pairs(hits) == [i \in 1..Len(hits) |-> <<hits[i].distance, hits[i].entering>>]

\* in every enter/exit pair the entering hit is strictly nearer
StrictPairs(hits) ==
    \A i \in 1..(Len(hits) \div 2) : hits[2 * i - 1].distance < hits[2 * i].distance

\* C1: Csg::intersect on operand streams that are sorted and made of matched
\* enter/exit pairs emits hits in non-decreasing distance order, alternately
\* entering and exiting from an entering hit on, whose intervals cover
\* exactly the union, intersection or difference of the operands' intervals.
CsgBooleanCombination ==
    csgIn # CsgIdle =>
        /\ ~csgOut.panic
        /\ SortedByDistance(csgOut.hits)
        /\ AlternatingPairs(csgOut.hits)
        /\ \A k \in 0..(MaxDist - 1) :
             Covers(csgOut.hits, k)
                <=> Combine(csgIn.mode, Covers(csgIn.left, k), Covers(csgIn.right, k))

\* the hits of the operand A of the object Csg(mode, A, A) just intersected
OperandHits == Intersect(primIn.obj.left, primIn.ray)

SelfCsg(mode) ==
    /\ primIn # PrimIdle
    /\ primIn.obj.kind = "Csg"
    /\ primIn.obj.mode = mode
    /\ primIn.obj.left = primIn.obj.right

\* C2: for every primitive A and ray, Csg(Union, A, A) and
\* Csg(Intersection, A, A) return the hit pairs of A (same distances and
\* flags, in order), and Csg(Difference, A, A) returns no hits at all.
CsgIdempotence ==
    /\ SelfCsg("Union") => (~primOut.panic /\ Pairs(primOut.hits) = Pairs(OperandHits.hits))
    /\ SelfCsg("Intersection") =>
           (~primOut.panic /\ Pairs(primOut.hits) = Pairs(OperandHits.hits))
    /\ SelfCsg("Difference") => (~primOut.panic /\ primOut.hits = <<>>)

\* C3: intersect of a Sphere, Quadratic, Cuboid or Csg returns, for every ray,
\* an even number of hits forming enter/exit pairs whose entering hit is
\* strictly nearer than its exiting hit.
PairedHits ==
    primIn # PrimIdle =>
        /\ ~primOut.panic
        /\ AlternatingPairs(primOut.hits)
        /\ StrictPairs(primOut.hits)

-----------------------------------------------------------------------------
(* Scene::raytrace and Scene::shadowtrace *)

\* every hit of the objects from number i on, given the hits of every object
RECURSIVE AllHits(_, _)
AllHits(hits, i) ==
    IF i > Len(hits) THEN {}
    ELSE { hits[i].hits[j] : j \in 1..Len(hits[i].hits) } \cup AllHits(hits, i + 1)

\* ret is the result of shading the nearest hit of V: a hit of V no farther
\* than any other, its distance as depth, the compute_once term of its object
\* in the colour; black and depth 0 when V is empty
ShadesNearest(V, ret) ==
    IF V = {}
    THEN ret.hit = <<>> /\ ret.colour = Black /\ ret.depth = 0
    ELSE /\ ret.hit # <<>>
         /\ ret.hit[1] \in V
         /\ \A h \in V : ret.hit[1].distance <= h.distance
         /\ ret.depth = ret.hit[1].distance
         /\ ret.colour.once = ret.hit[1].what

\* the entering hits at distance 0 or more
ValidHits(all) == { h \in all : h.entering /\ h.distance >= 0 }

\* the entering hits at a distance above 0
PositiveHits(all) == { h \in all : h.entering /\ h.distance > 0 }

RaytraceReturned == sceneCall.op = "raytrace" /\ ~sceneRet.panic

\* C4 (as the code has it): a call of Scene::raytrace that returns shades
\* the nearest hit among the entering hits of all objects at distance 0 or
\* more; the depth is that hit's distance; with no such hit the result is
\* black with depth 0.
NearestValidHitShaded ==
    RaytraceReturned =>
        ShadesNearest(ValidHits(AllHits(IntersectAll(sceneCall.objects, sceneCall.ray), 1)),
                      sceneRet)

\* C4 happens: a ray that starts on a surface has an entering hit at distance
\* 0, a farther entering hit on another object, and the first is shaded
HitAtDistanceZeroShaded ==
    /\ RaytraceReturned
    /\ sceneRet.hit # <<>>
    /\ sceneRet.depth = 0
    /\ Cardinality(ValidHits(AllHits(IntersectAll(sceneCall.objects, sceneCall.ray), 1))) > 1

\* C4 as stated: the hit shaded is the nearest among the entering hits with
\* distance > 0, and the result is black with depth 0 when there is none.
NearestPositiveHitShaded ==
    RaytraceReturned =>
        ShadesNearest(PositiveHits(AllHits(IntersectAll(sceneCall.objects, sceneCall.ray), 1)),
                      sceneRet)

\* C5: shadowtrace(ray, limit) is true if and only if some object has some
\* hit, at any place of its hit sequence, with 1e-7 < distance < limit.
ShadowtraceAnyHit ==
    (sceneCall.op = "shadowtrace" /\ ~sceneRet.panic) =>
        (sceneRet.found
            <=> \E h \in AllHits(IntersectAll(sceneCall.objects, sceneCall.ray), 1) :
                    h.distance > 0 /\ h.distance < sceneCall.limit)

\* the distance from the point p to the light, for a point light
LightDistance(light, p) == length(VSub(light.position, p))

\* the shadow call made for a point light was handed the light's distance
\* as limit, and the light is left out of the colour when an occluder lies
\* on the shadow ray nearer than the light
ShadowedUpToLight(objects, light, p, call, lit) ==
    /\ call.limit = LightDistance(light, p)
    /\ shadowtrace(objects, call.ray, LightDistance(light, p)).found => call.light \notin lit

\* C6: in Scene::raytrace the limit handed to shadowtrace is the light's
\* distance from the hit point, so an occluder on the shadow ray at any
\* distance smaller than the light's puts the point in shadow.
ShadowLimitIsLightDistance ==
    (RaytraceReturned /\ sceneRet.hit # <<>>) =>
        \A c \in 1..Len(sceneRet.shadow_calls) :
            sceneCall.lights[sceneRet.shadow_calls[c].light].kind = "PointLight" =>
                ShadowedUpToLight(sceneCall.objects,
                                  sceneCall.lights[sceneRet.shadow_calls[c].light],
                                  sceneRet.hit[1].position, sceneRet.shadow_calls[c],
                                  sceneRet.colour.lights)

-----------------------------------------------------------------------------
(* Camera::render *)

\* the threads whose row range holds the row y
Owners(y) == { i \in 1..Len(threads) : threads[i].start_y <= y /\ y < threads[i].end_y }

\* the row r of a framebuffer
RowOf(fb, r) == SubSeq(fb.pixels, r * fb.width + 1, (r + 1) * fb.width)

\* the row ranges handed to the threads: thread i (from 0) gets the rows
\* from i * (h / W) up to (i + 1) * (h / W), the last one h mod W more
RangesAsStated(h, W) ==
    /\ Len(threads) = W
    /\ \A i \in 1..W :
         /\ threads[i].start_y = (i - 1) * (h \div W)
         /\ threads[i].end_y = i * (h \div W) + (IF i = W THEN h % W ELSE 0)

\* the ranges are disjoint, adjacent in thread order and cover the rows 0..h-1
RangesPartition(h, W) ==
    /\ threads[1].start_y = 0
    /\ threads[W].end_y = h
    /\ \A i \in 1..W : threads[i].start_y <= threads[i].end_y
    /\ \A i \in 1..(W - 1) : threads[i].end_y = threads[i + 1].start_y
    /\ \A y \in 0..(h - 1) : Cardinality(Owners(y)) = 1

\* the row y of the image is the row y - start_y of the tile of its owner
RowFromOwner(y, i) ==
    RowOf(image[1], y) = RowOf(threads[i].framebuffer, y - threads[i].start_y)

\* C7: Camera::render hands thread i the rows [i*(h/W), (i+1)*(h/W)) and the
\* last thread the h mod W remaining rows as well; the ranges are pairwise
\* disjoint, adjacent and cover exactly the rows 0..h-1; combine_rows
\* concatenates the tiles so that row y of the result is row y - start_i of
\* the tile of the thread i that owns y.
TilePartition ==
    camera.pc # "idle" =>
        /\ RangesAsStated(camera.height, camera.num_threads)
        /\ RangesPartition(camera.height, camera.num_threads)
        /\ camera.pc = "done" =>
             /\ image[1].width = camera.width
             /\ image[1].height = camera.height
             /\ Len(image[1].pixels) = camera.width * camera.height
             /\ \A y \in 0..(camera.height - 1) : \A i \in Owners(y) : RowFromOwner(y, i)

\* C7 happens: an image whose height is no multiple of the number of threads
\* was rendered by several threads with at least a row each
UnevenTilesCombined ==
    /\ camera.pc = "done"
    /\ camera.num_threads > 1
    /\ camera.height > camera.num_threads
    /\ camera.height % camera.num_threads # 0
    /\ threads[camera.num_threads].end_y - threads[camera.num_threads].start_y
         > threads[1].end_y - threads[1].start_y

RECURSIVE RenderRows(_, _, _, _, _)
\* the loop over y of render_rows run without interruption, from y to end_y
RenderRows(self, framebuffer, start_y, y, end_y) ==
    IF y >= end_y THEN framebuffer
    ELSE RenderRows(self, RenderPixels(self, framebuffer, start_y, y, 0), start_y, y + 1, end_y)

\* what Camera::render returns with one thread: the tile of the rows 0..h-1,
\* combined alone
RenderAlone(self) ==
    combine_rows(<<RenderRows(self, FramebufferNew(self.width, self.height), 0, 0,
                              self.height)>>)

\* the pixel (x, y) of the image holds what raytrace returned for its ray
PixelTraced(x, y) ==
    image[1].pixels[y * camera.width + x + 1]
        = [colour |-> EnvironmentRaytrace(get_ray_pixel(camera, x, y)).colour,
           depth |-> EnvironmentRaytrace(get_ray_pixel(camera, x, y)).depth]

\* the tile of thread i holds the rows the thread itself has rendered so
\* far and nothing else
OwnTileOnly(i) ==
    threads[i].state \in {"running", "finished", "joined"} =>
        threads[i].framebuffer
            = RenderRows(camera,
                         FramebufferNew(camera.width, threads[i].end_y - threads[i].start_y),
                         threads[i].start_y, threads[i].start_y, threads[i].y)

\* the tile of thread i is one Framebuffer::new accepts
TileFits(i) == FramebufferFits(camera.width, threads[i].end_y - threads[i].start_y)

RECURSIVE SumPortions(_)
\* the photons asked of the threads, summed
SumPortions(ts) == IF ts = <<>> THEN 0 ELSE Head(ts).num_photons + SumPortions(Tail(ts))

\* the portions handed to the shooting threads: N / W each, the last one
\* N mod W more
PortionsAsStated(N, W) ==
    /\ Len(shooters) = W
    /\ \A t \in 1..W :
         shooters[t].num_photons = N \div W + (IF t = W THEN N % W ELSE 0)
    /\ SumPortions(shooters) = N

\* the vector of thread t holds photons of its own emissions only, of those
\* it has made so far, in the order it made them
OwnPhotonsOnly(t) ==
    /\ \A k \in 1..Len(shooters[t].photons) :
         /\ shooters[t].photons[k].emitted_by[1] = t - 1
         /\ shooters[t].photons[k].emitted_by[2] < shooters[t].i
    /\ \A k \in 1..(Len(shooters[t].photons) - 1) :
         shooters[t].photons[k].emitted_by[2] <= shooters[t].photons[k + 1].emitted_by[2]
    /\ shooters[t].i <= shooters[t].num_photons

\* a thread whose vector the driver holds has run to its end: it has
\* emitted its whole portion, or it is a caustic pass without caustic photons
ReadAfterJoin(j) ==
    /\ shooters[j].state = "joined"
    /\ shoot.photons[j] = shooters[j].photons
    /\ \/ shooters[j].i = shooters[j].num_photons
       \/ /\ shoot.light = "PointLight"
          /\ shoot.caustic_photons = << <<>> >>
          /\ shooters[j].photons = <<>>

\* C9: shoot_photons_mt starts W threads with portions N / W, the last one
\* with N / W + N mod W, which sum to N; every thread appends the photons it
\* lands to its own vector only, and the driver takes the vector of a
\* thread only once it has joined it.
EmissionPartition ==
    shoot.pc # "idle" =>
        /\ PortionsAsStated(shoot.num_photons, shoot.num_threads)
        /\ \A t \in 1..Len(shooters) : OwnPhotonsOnly(t)
        /\ Len(shoot.photons) <= shoot.num_threads
        /\ \A j \in 1..Len(shoot.photons) : ReadAfterJoin(j)
        /\ \A t \in 1..Len(shooters) :
             shooters[t].state = "joined" => t <= Len(shoot.photons)
        /\ shoot.pc = "done" => Len(shoot.photons) = shoot.num_threads

\* C9 happens: a number of photons that is no multiple of the number of
\* threads was shot by several threads, each landed photons, the last
\* thread had the larger portion, and all were joined
UnevenEmissionJoined ==
    /\ shoot.pc = "done"
    /\ shoot.num_threads > 1
    /\ shoot.num_photons > shoot.num_threads
    /\ shoot.num_photons % shoot.num_threads # 0
    /\ \A t \in 1..Len(shooters) : shooters[t].photons # <<>>
    /\ shooters[shoot.num_threads].num_photons > shooters[1].num_photons

\* the photon map is present and is the tree of the photons handed to its
\* tree-building thread, which has been joined
MapBuilt(photon_map, builder) ==
    /\ builder.state = "joined"
    /\ photon_map = <<PhotonTreeBuild(builder.photons)>>

\* both maps are absent before pre_render and up to its first join, both
\* are present and built once it has returned, and a raytrace call finds a
\* map absent only before pre_render
LifecycleState ==
    /\ pscene.pc \in {"new", "join regular", "aborted", "panicked"} =>
         pscene.regular_photon_map = <<>> /\ pscene.caustic_photon_map = <<>>
    /\ pscene.pc = "join caustic" =>
         MapBuilt(pscene.regular_photon_map, builders.regular)
    /\ pscene.pc = "ready" =>
         /\ MapBuilt(pscene.regular_photon_map, builders.regular)
         /\ MapBuilt(pscene.caustic_photon_map, builders.caustic)
         /\ \A w \in DOMAIN tiles : tiles[w] # "panicked"

\* once pre_render has returned no step changes the scene or its maps
LifecycleStep == pscene.pc = "ready" => pscene' = pscene

\* C10: both photon maps of a PhotonScene are absent until pre_render and
\* present when it returns, whether or not there are lights and photons
\* land; pre_render returns only when both tree-building threads have
\* finished and been joined; afterwards no raytrace call of any tile worker
\* changes a map or finds one absent.
PhotonMapLifecycle == [](LifecycleState) /\ [][LifecycleStep]_vars

\* C10 happens: pre_render has returned for a scene without lights, both
\* maps are empty trees, and two tile workers are in raytrace calls that
\* have asked a map for photons
EmptyMapsQueried ==
    /\ pscene.pc = "ready"
    /\ pscene.lights = <<>>
    /\ pscene.regular_photon_map = <<PhotonTreeBuild(<<>>)>>
    /\ pscene.caustic_photon_map = <<PhotonTreeBuild(<<>>)>>
    /\ \E w1, w2 \in DOMAIN tiles : w1 # w2 /\ tiles[w1] = "regular" /\ tiles[w2] = "regular"

-----------------------------------------------------------------------------
(* The recursive traces *)

\* the stack of Scene::raytrace calls: the first has depth 0, every nested
\* one the depth of its caller + 1, none a depth above MAX_DEPTH, every call
\* still to make has depth + 1, and a call at MAX_DEPTH makes none
WhittedDepths ==
    calls.op = "raytrace" =>
        /\ calls.pc # "overflow"
        /\ \A i \in 1..Len(calls.stack) :
              /\ calls.stack[i].depth = i - 1
              /\ calls.stack[i].depth <= MAX_DEPTH
              /\ \A r \in 1..Len(calls.stack[i].rays) :
                    calls.stack[i].rays[r] = calls.stack[i].depth + 1
              /\ calls.stack[i].depth >= MAX_DEPTH => calls.stack[i].rays = <<>>

\* C11: Whitted recursion is capped: GlobalMaterial::compute_once at depth 5
\* or more traces no ray, every recursive Scene::raytrace uses depth + 1, so
\* Scene::raytrace is never invoked with a depth above 5 and every primary
\* ray's call returns
WhittedRecursionCapped ==
    /\ []WhittedDepths
    /\ (calls.pc = "running") ~> (calls.pc = "returned")

\* a ray of depth 5 hit a reflecting and refracting material, and the call
\* traces no further ray
DepthFiveHitsGlass ==
    /\ calls.op = "raytrace" /\ calls.pc = "running"
    /\ Len(calls.stack) = MAX_DEPTH + 1
    /\ calls.stack[Len(calls.stack)].depth = MAX_DEPTH
    /\ calls.hit = GlassMaterial
    /\ calls.stack[Len(calls.stack)].rays = <<>>
    /\ calls.stack[MAX_DEPTH].rays # <<>>

\* C12: the chain of nested vueontrace calls is never deeper than the
\* 5-deep cap of the Whitted recursion (depths 0 to 5), and every
\* PhotonScene::raytrace call returns
VueonRecursionCapped ==
    /\ [](calls.op = "vueontrace" =>
            calls.pc # "overflow" /\ Len(calls.stack) <= MAX_DEPTH + 1)
    /\ (calls.pc = "running") ~> (calls.pc = "returned")

\* C13: under fair random choices every photontrace call eventually returns
PhotontraceReturns ==
    (calls.op = "photontrace" /\ calls.pc = "trace") ~> (calls.pc = "returned")

\* C19: the photon stored at a hit is Caustic when the chosen branch is
\* ReflectOrRefract, and when it is Diffuse and the photon in flight is of
\* kind Caustic; in every other case it is Colour
CausticMarking ==
    calls.op = "photontrace" =>
        \A i \in 1..Len(calls.stack) :
            calls.stack[i].stored =
                IF \/ calls.stack[i].choice = "ReflectOrRefract"
                   \/ /\ calls.stack[i].choice = "Diffuse"
                      /\ calls.stack[i].photon_type = "Caustic"
                THEN "Caustic" ELSE "Colour"

-----------------------------------------------------------------------------
(* The normals of the hits *)

\* the hits at a finite distance that the call returned
FiniteHits ==
    { i \in 1..Len(primOut.hits) :
        /\ primOut.hits[i].distance > NEG_INFINITY
        /\ primOut.hits[i].distance < INFINITY }

OfSpherePlaneQuadratic == primIn.obj.kind \in {"Sphere", "Plane", "Quadratic"}

\* C14: for every finite hit of Sphere, Plane and Quadratic
\* intersect, normal . ray.direction is negative exactly when the hit is an
\* entering hit, and positive for an exiting hit
OrientedNormals ==
    OfSpherePlaneQuadratic =>
        \A i \in FiniteHits :
            /\ (dot(primOut.hits[i].normal, primIn.ray.direction) < 0)
                 <=> primOut.hits[i].entering
            /\ ~primOut.hits[i].entering =>
                 dot(primOut.hits[i].normal, primIn.ray.direction) > 0

-----------------------------------------------------------------------------
(* Scene files *)

RECURSIVE StartLine(_, _)
\* the line the i-th paragraph of the file starts at, the first line being 1
StartLine(written, i) ==
    IF i = 1 THEN 1
    ELSE StartLine(written, i - 1) + written[i - 1].attributes + 2

\* the lines at which the paragraphs of the given kind start, in file order
StartLinesOf(written, kind) ==
    LET Pick(i) == written[i].header.words[1] = kind
        picked == SelectSeq([i \in 1..Len(written) |-> i], Pick)
    IN  [k \in 1..Len(picked) |-> StartLine(written, picked[k])]

\* every paragraph is a scene, camera, light or object of a class the
\* parser knows
KnownParagraphs(written) ==
    \A i \in 1..Len(written) :
        /\ written[i].header.words[1] \in {"scene", "camera", "light", "object"}
        /\ written[i].header.words[2] # "Spot"

\* C15: from_contents answers a second scene paragraph with the error
\* "Multiple scenes in file" and a second camera paragraph with "Multiple
\* cameras in file", each at the start line of that paragraph; otherwise it
\* adds every light and every object paragraph exactly once, in file order
SceneFileMultiplicity ==
    build.pc = "from_contents" /\ KnownParagraphs(build.written) =>
        LET scenes == StartLinesOf(build.written, "scene")
            cameras == StartLinesOf(build.written, "camera")
        IN  IF Len(scenes) >= 2
            THEN /\ build.result.status = "Err"
                 /\ build.result.message = "Multiple scenes in file"
                 /\ build.result.line = scenes[2]
            ELSE IF Len(cameras) >= 2
            THEN /\ build.result.status = "Err"
                 /\ build.result.message = "Multiple cameras in file"
                 /\ build.result.line = cameras[2]
            ELSE /\ build.result.status = "Ok"
                 /\ build.result.value.scene.lights = StartLinesOf(build.written, "light")
                 /\ build.result.value.scene.objects = StartLinesOf(build.written, "object")

\* C16: building the environment and camera of a scene file ends with a
\* scene and camera or with an error value, never with a panic
SceneBuildNeverCrashes ==
    build.pc # "idle" => build.result.status \in {"Ok", "Err"}

-----------------------------------------------------------------------------
(* The overflow of the hit buffer *)

\* C17: a HitVec never holds more hits than its capacity, and an intersect
\* call that would hold more costs at most the pixel being traced: no render
\* thread is ended by it and the render is not aborted, so that the other
\* pixels are still produced
HitBufferOverflowContained ==
    /\ Len(primOut.hits) <= HITVEC_SIZE
    /\ \A i \in 1..Len(threads) : threads[i].state # "panicked"
    /\ camera.pc # "panicked"

-----------------------------------------------------------------------------
(* The run of the binary *)

\* C18: when ffmpeg cannot be started the run still finishes normally: main
\* returns with exit code 0 after "Done!", the written image files in place
ConverterAbsenceNotFatal ==
    main.ffmpeg = "not started" =>
        /\ main.pc = "exited" /\ main.exit = 0
        /\ stdout # <<>> /\ stdout[Len(stdout)].kind = "Done!"
        /\ {"render/rgb.ppm", "render/depth.ppm"} \subseteq main.files

-----------------------------------------------------------------------------
(* The weights of the photon behaviours *)

RECURSIVE NonEmptyCompounds(_)
\* the material is no empty CompoundMaterial and holds none
NonEmptyCompounds(material) ==
    material.class = "CompoundMaterial" =>
        /\ material.materials # <<>>
        /\ \A k \in 1..Len(material.materials) : NonEmptyCompounds(material.materials[k])

\* the four weights of a material come out on one denominator
CommonDenominator(weights) == \A b \in DOMAIN weights : weights[b][2] = weights[1][2]

\* C20: for Monochrome, Texture, FalseColour, GlobalMaterial and every
\* CompoundMaterial over a non-empty list of such materials, the four
\* behaviour weights are each non-negative, sum to at most 1 and are not all
\* zero, and the weighted choice of photontrace does not fail
WeightsAreDistribution ==
    (weighed # WeighedIdle /\ NonEmptyCompounds(weighed.material)) =>
        /\ CommonDenominator(weighed.weights) /\ weighed.weights[1][2] > 0
        /\ \A b \in DOMAIN weighed.weights : weighed.weights[b][1] >= 0
        /\ weighed.weights[1][1] + weighed.weights[2][1] + weighed.weights[3][1]
             + weighed.weights[4][1] <= weighed.weights[1][2]
        /\ \E b \in DOMAIN weighed.weights : weighed.weights[b][1] > 0
        /\ weighed.choice # "panicked"

\* a compound of a Phong material and a GlobalMaterial was weighed: 0.3,
\* 0.15, 0.05 and 0.5, and ReflectOrRefract was chosen
CompoundWeighed ==
    /\ weighed.material = CompoundMaterial(<<Monochrome, GlassMaterial>>)
    /\ weighed.weights[1][1] * 20 = 6 * weighed.weights[1][2]
    /\ weighed.weights[2][1] * 20 = 3 * weighed.weights[2][2]
    /\ weighed.weights[3][1] * 20 = 1 * weighed.weights[3][2]
    /\ weighed.weights[4][1] * 20 = 10 * weighed.weights[4][2]
    /\ weighed.choice = "ReflectOrRefract"

-----------------------------------------------------------------------------
(* Who prints during the render *)

\* C21: while the image is rendered only worker 0 (threads[1]) takes the lock
\* of standard output and prints; the driver (thread 0 of the records) prints
\* the line about the spawned threads
ProgressFromWorkerZero ==
    /\ stdout_lock \in {0, 1}
    /\ \A k \in 1..Len(stdout) : stdout[k].thread \in {0, 1}

-----------------------------------------------------------------------------
(* The hits of a cuboid *)

\* the hits of the six face planes at a point, i.e. at a finite distance,
\* that lies inside the box with the slack
FaceHitsInside(self, ray) ==
    { hit \in UNION { { PlaneIntersect(get_planes(self)[k], ray).hits[j] :
                         j \in 1..Len(PlaneIntersect(get_planes(self)[k], ray).hits) } :
                      k \in 1..6 } :
        /\ hit.distance # INFINITY /\ hit.distance # NEG_INFINITY
        /\ CuboidInside(self, hit.position) }

\* the hits h of the set for which no other is nearer (sign 1) or further
\* (sign -1)
Extreme(hits, sign) ==
    { h \in hits : \A g \in hits : sign * h.distance <= sign * g.distance }

\* the returned hits are the nearest of the entering and the furthest of the
\* exiting hits of the set
NearestAndFurthest(returned, hits) ==
    LET entering == { h \in hits : h.entering }
        exiting == { h \in hits : ~h.entering }
    IN  /\ Len(returned) <= 2
        /\ Len(returned) = (IF entering = {} THEN 0 ELSE 1) + (IF exiting = {} THEN 0 ELSE 1)
        /\ \A k \in 1..Len(returned) :
               returned[k] \in Extreme(entering, 1) \cup Extreme(exiting, -1)
        /\ entering # {} => returned[1] \in Extreme(entering, 1)
        /\ exiting # {} => returned[Len(returned)] \in Extreme(exiting, -1)

\* C22: Cuboid::intersect returns at most two hits: of the hits of its six
\* face planes whose point lies inside the box (with the slack), the entering
\* hit with the smallest distance and the exiting hit with the largest
CuboidNearestFurthest ==
    primIn.obj.kind = "Cuboid" =>
        /\ ~primOut.panic
        /\ NearestAndFurthest(primOut.hits, FaceHitsInside(primIn.obj, primIn.ray))

-----------------------------------------------------------------------------
(* Comments and nested paragraphs of a scene file *)

\* the file with one more line after its first `at` lines
InsertAt(contents, at, line) ==
    SubSeq(contents, 1, at) \o <<line>> \o SubSeq(contents, at + 1, Len(contents))

RECURSIVE Unnumbered(_)
\* a paragraph without its line numbers: kind, class and attributes
Unnumbered(paragraph) ==
    [kind |-> paragraph.kind, class |-> paragraph.class,
     attributes |->
        { [key |-> a.key, type |-> a.value.type, words |-> a.value.words,
           paragraph |-> IF a.value.paragraph = <<>> THEN <<>>
                         ELSE <<Unnumbered(a.value.paragraph[1])>>] :
          a \in paragraph.attributes }]

\* two results of parse_whole_file: the same paragraphs with the same
\* attributes, or the same kind of error
SameParagraphs(a, b) ==
    /\ a.status = b.status
    /\ a.status = "Err" => a.message = b.message
    /\ a.status = "Ok" =>
         /\ Len(a.value) = Len(b.value)
         /\ \A k \in 1..Len(a.value) : Unnumbered(a.value[k]) = Unnumbered(b.value[k])

\* two results of from_contents: both a scene and camera, or the same kind
\* of error, or the same panic
SameOutcome(a, b) == a.status = b.status /\ a.message = b.message

\* C23: a line whose first character is '#' is a comment: put at any place
\* of a file, between the header and the attribute lines of a paragraph
\* included, it leaves the result of from_contents as it was (the same
\* paragraphs with the same attributes, or the same kind of error)
CommentsIgnored ==
    build.pc = "from_text" =>
        \A at \in 0..Len(build.written) :
            /\ SameParagraphs(build.parsed,
                              parse_whole_file(InsertAt(build.written, at, CommentLine)))
            /\ SameOutcome(build.result,
                           from_contents(InsertAt(build.written, at, CommentLine)))

RECURSIVE NestedIsolated(_)
\* no line recorded as an attribute of a nested paragraph is recorded as an
\* attribute of the paragraph itself, and so on down the nested paragraphs
NestedIsolated(paragraph) ==
    \A a \in paragraph.attributes :
        a.value.paragraph # <<>> =>
            /\ \A b \in a.value.paragraph[1].attributes :
                   \A c \in paragraph.attributes : c.line_number # b.line_number
            /\ NestedIsolated(a.value.paragraph[1])

\* C28: an attribute line of a nested paragraph is recorded in that nested
\* paragraph only: it adds no attribute to the enclosing paragraph and
\* replaces none of its attributes
NestedParagraphsIsolated ==
    (build.pc = "from_text" /\ build.parsed.status = "Ok") =>
        \A k \in 1..Len(build.parsed.value) : NestedIsolated(build.parsed.value[k])

-----------------------------------------------------------------------------
(* The diffuse term of the Phong materials *)

\* C24: the diffuse factor of compute_per_light, bounced_photon and
\* render_vueon is max(0, -n.l); when n.l > 0 the diffuse contribution is
\* zero, and no channel of the colour they return is negative
PhongDiffuseClamped ==
    shaded # ShadedIdle =>
        /\ shaded.diffuse_strength = diffuse_strength_clamped(shaded.normal, shaded.ldir)
        /\ dot(shaded.normal, shaded.ldir) > 0 => shaded.diffuse = black
        /\ shaded.colour.r >= 0 /\ shaded.colour.g >= 0 /\ shaded.colour.b >= 0

-----------------------------------------------------------------------------
(* The photon maps after pre_render *)

\* how many times a photon occurs in a vector
Occurrences(photon, photons) ==
    Cardinality({ k \in 1..Len(photons) : photons[k] = photon })

\* the photons the tree-building threads were given
MappedPhotons == builders.regular.photons \o builders.caustic.photons

\* C25: every landed photon the calls of shoot_photons_mt returned, over all
\* lights and both passes, is in exactly one of the two photon maps, as many
\* times as it was returned: the sizes of the two maps add up to the number
\* of photons returned
PhotonsConserved ==
    /\ pscene.pc = "new" => pscene.returned = <<>>
    /\ pscene.pc \in {"join regular", "join caustic", "ready", "panicked"} =>
         \A k \in 1..Len(pscene.returned) :
             Occurrences(pscene.returned[k], MappedPhotons)
                 = Occurrences(pscene.returned[k], pscene.returned)
    /\ pscene.pc = "ready" =>
         pscene.regular_photon_map[1].size + pscene.caustic_photon_map[1].size
             = Len(pscene.returned)

\* C26: after pre_render every photon of the caustic map has kind Caustic
\* and every photon of the regular map has another kind (Colour or Shadow),
\* for the photons of the first pass and of the caustic pass alike
PhotonMapsSeparated ==
    pscene.pc = "ready" =>
        /\ \A photon \in pscene.caustic_photon_map[1].points : IsCaustic(photon)
        /\ \A photon \in pscene.regular_photon_map[1].points : IsRegular(photon)

\* C27: a caustic pass handed an empty slice of caustic photons emits
\* nothing and fails in no thread, for a PointLight and a DPLight and every
\* number of threads: shoot_photons_mt returns
CausticPassOnEmptySlice ==
    shoot.caustic_photons = << <<>> >> =>
        /\ shoot.pc # "panicked"
        /\ \A t \in 1..Len(shooters) :
               /\ shooters[t].state # "panicked"
               /\ shooters[t].i = 0
               /\ shooters[t].photons = <<>>

-----------------------------------------------------------------------------
(* The inside of a plane *)

\* the rays of the model from a position that are not parallel to the plane
CrossingRays(self, position) ==
    { ray \in Rays : ray.position = position /\ dot(self.normal, ray.direction) # 0 }

\* the position lies in the region the rays that cross the plane treat as
\* inside: on each of them it comes after the entering hit and before the
\* exiting hit
InsidePlane(self, position) ==
    \A ray \in CrossingRays(self, position) :
        /\ PlaneIntersect(self, ray).hits[1].entering
        /\ PlaneIntersect(self, ray).hits[1].distance <= 0
        /\ ~PlaneIntersect(self, ray).hits[2].entering
        /\ PlaneIntersect(self, ray).hits[2].distance >= 0

ParallelToPlane ==
    primIn.obj.kind = "Plane" /\ dot(primIn.obj.normal, primIn.ray.direction) = 0

SentinelPair(self) ==
    << HitInfinity(self.id, TRUE, NEG_INFINITY), HitInfinity(self.id, FALSE, INFINITY) >>

\* C29: a ray parallel to the plane gets the sentinel pair (entering at
\* minus infinity, exiting at plus infinity) exactly when its origin lies in
\* the region the crossing rays treat as inside, and no hits when it lies on
\* the other side
PlaneInsideConsistent ==
    ParallelToPlane =>
        IF InsidePlane(primIn.obj, primIn.ray.position)
        THEN primOut.hits = SentinelPair(primIn.obj)
        ELSE primOut.hits = <<>>

-----------------------------------------------------------------------------
(* The hit buffers of the composite objects *)

OfComposite == csgIn # CsgIdle /\ csgIn.node \in {"pipe", "MarioPipe", "coin", "MarioCoin"}

\* C30: intersecting MarioPipe or MarioCoin pushes no hit onto a HitVec that
\* holds 6 hits, at any level of the CSG tree, when each leaf returns at
\* most 2 hits: no Csg::intersect call of the tree panics, and no HitVec is
\* longer than 6
CompositesNeverOverflow ==
    OfComposite =>
        /\ ~csgOut.panic /\ ~csgIn.left.panic /\ ~csgIn.right.panic
        /\ Len(csgOut.hits) <= HITVEC_SIZE
        /\ Len(csgOut.hits) <= Len(csgIn.left.hits) + Len(csgIn.right.hits)

\* C30 happens: MarioPipe returned 6 hits, its buffer is full and nothing
\* overflowed
MarioPipeFull ==
    /\ OfComposite
    /\ csgIn.node = "MarioPipe"
    /\ ~csgOut.panic
    /\ Len(csgOut.hits) = HITVEC_SIZE

====
